---- MODULE Spec2Model ----
(***************************************************************************)
(* A state-machine model of the vote-casting and session-authentication    *)
(* subsystem of the voting backend (src/server/app.py, src/server/         *)
(* models.py).                                                             *)
(*                                                                         *)
(* The relational store (users, votes, sessions, voting_config), the       *)
(* categories file and the in-process cache app.config['VOTING_ACTIVE']    *)
(* are the state.  A cast-vote request is a small process: each of its     *)
(* steps is one round trip to the store (gate read, authentication,        *)
(* nominee resolution against the categories file, the ledger              *)
(* transaction), so that other requests interleave exactly where the code  *)
(* lets them.  Admin handlers run one transaction each and are one step.   *)
(***************************************************************************)
EXTENDS Integers, Sequences, FiniteSets, TLC

VARIABLES
    use_postgresql,   \* app.config['USE_POSTGRESQL'], fixed at create_app
    users,            \* table users: set of rows
    votes,            \* table votes: set of rows
    vote_seq,         \* last AUTOINCREMENT / serial id given to a vote row
    sessions,         \* table sessions: set of rows
    session_seq,      \* number of session tokens drawn so far (fresh ids)
    voting_config,    \* value of the voting_config row keyed 'voting_active'
    VOTING_ACTIVE,    \* app.config['VOTING_ACTIVE'], the in-process cache
    categories_js,    \* what load_categories_data() finds on disk
    now,              \* datetime.utcnow(), in seconds
    boots,            \* number of times create_app has run
    reqs,             \* the cast-vote requests: position and locals of each
    reply,            \* the request and response of the last one-step handler
    user_states,      \* table user_states: the user_id of each row
    retry             \* a call of retry_db_operation: position and locals

vars == <<use_postgresql, users, votes, vote_seq, sessions, session_seq,
          voting_config, VOTING_ACTIVE, categories_js, now, boots, reqs,
          reply, user_states, retry>>

----------------------------------------------------------------------------
(* Bounds of the model.                                                    *)

\* Number of cast-vote requests that may be in flight or answered.
MaxReq == 2

\* Number of process restarts explored.
MaxBoots == 1

----------------------------------------------------------------------------
(* Python values.                                                          *)

\* Python's None for an optional integer; Some(n) is the integer n.
None == <<>>
Some(n) == <<n>>

\* A JSON value int() raises on ("abc", a list, ...).
Bad == <<0, 0>>

\* `if not x` for an optional integer: None and 0 are falsy.
Falsy(x) == x = None \/ x = Some(0)

\* bool(v) of a JSON value of the voting_active field.  JSON values are
\* modelled as strings naming them: "true", "false", "0", "1", the empty
\* string "''" and the non-empty string "'false'".
Truthy(v) == v \notin {"false", "0", "''", "null"}

----------------------------------------------------------------------------
(* Text.  A string is a sequence of one-character strings, so that         *)
(* strip(), lower() and upper() are computed, not assumed.                 *)

LowerLetters ==
    <<"a", "b", "c", "d", "e", "f", "g", "h", "i", "j", "k", "l", "m",
      "n", "o", "p", "q", "r", "s", "t", "u", "v", "w", "x", "y", "z">>

UpperLetters ==
    <<"A", "B", "C", "D", "E", "F", "G", "H", "I", "J", "K", "L", "M",
      "N", "O", "P", "Q", "R", "S", "T", "U", "V", "W", "X", "Y", "Z">>

LowerChar(c) ==
    CASE c = "A" -> "a" [] c = "B" -> "b" [] c = "C" -> "c"
      [] c = "D" -> "d" [] c = "E" -> "e" [] c = "F" -> "f"
      [] c = "G" -> "g" [] c = "H" -> "h" [] c = "I" -> "i"
      [] c = "J" -> "j" [] c = "K" -> "k" [] c = "L" -> "l"
      [] c = "M" -> "m" [] c = "N" -> "n" [] c = "O" -> "o"
      [] c = "P" -> "p" [] c = "Q" -> "q" [] c = "R" -> "r"
      [] c = "S" -> "s" [] c = "T" -> "t" [] c = "U" -> "u"
      [] c = "V" -> "v" [] c = "W" -> "w" [] c = "X" -> "x"
      [] c = "Y" -> "y" [] c = "Z" -> "z"
      [] OTHER -> c

UpperChar(c) ==
    CASE c = "a" -> "A" [] c = "b" -> "B" [] c = "c" -> "C"
      [] c = "d" -> "D" [] c = "e" -> "E" [] c = "f" -> "F"
      [] c = "g" -> "G" [] c = "h" -> "H" [] c = "i" -> "I"
      [] c = "j" -> "J" [] c = "k" -> "K" [] c = "l" -> "L"
      [] c = "m" -> "M" [] c = "n" -> "N" [] c = "o" -> "O"
      [] c = "p" -> "P" [] c = "q" -> "Q" [] c = "r" -> "R"
      [] c = "s" -> "S" [] c = "t" -> "T" [] c = "u" -> "U"
      [] c = "v" -> "V" [] c = "w" -> "W" [] c = "x" -> "X"
      [] c = "y" -> "Y" [] c = "z" -> "Z"
      [] OTHER -> c

\* str.lower()
Lower(s) == [i \in 1..Len(s) |-> LowerChar(s[i])]

\* str.upper()
Upper(s) == [i \in 1..Len(s) |-> UpperChar(s[i])]

RECURSIVE LStrip(_)
LStrip(s) == IF s # <<>> /\ Head(s) = " " THEN LStrip(Tail(s)) ELSE s

RECURSIVE RStrip(_)
RStrip(s) ==
    IF s # <<>> /\ s[Len(s)] = " " THEN RStrip(SubSeq(s, 1, Len(s) - 1)) ELSE s

\* str.strip()
Strip(s) == RStrip(LStrip(s))

\* `x in list`
In(list, x) == \E i \in 1..Len(list) : list[i] = x

\* A lookup that returns the last occurrence instead of the first.
IndexOfLast(list, x) ==
    CHOOSE i \in 1..Len(list) :
        list[i] = x /\ \A j \in (i + 1)..Len(list) : list[j] # x

\* list.index(x) + 1: the 1-based position of the first occurrence.
IndexOf(list, x) ==
    CHOOSE i \in 1..Len(list) :
        list[i] = x /\ \A j \in 1..(i - 1) : list[j] # x

----------------------------------------------------------------------------
(* Nominee resolution, cast_vote lines 1549-1602.                          *)

\* load_categories_data(): the parsed array, or None when the file is
\* missing or does not parse.  categories_js.ok tells which.
load_categories_data == categories_js

\* The loop of lines 1565-1569: is there a category numbered category_id?
HasCategory(categories, category_id) ==
    /\ categories.ok
    /\ \E i \in 1..Len(categories.data) : categories.data[i].number = category_id

\* `selected`: the first category whose number is category_id.
SelectCategory(categories, category_id) ==
    categories.data[CHOOSE i \in 1..Len(categories.data) :
        /\ categories.data[i].number = category_id
        /\ \A j \in 1..(i - 1) : categories.data[j].number # category_id]

\* Lines 1550-1555: int() of the two ids; any failure clears both.
ParseIds(body) ==
    IF body.category_id = Bad \/ body.nominee_id = Bad
    THEN [category_id |-> None, nominee_id |-> None]
    ELSE [category_id |-> body.category_id, nominee_id |-> body.nominee_id]

\* Lines 1576-1583: a supplied name that is in the list sets the id.
NameToId(normalized_nominees, normalized_name, nominee_id) ==
    IF normalized_name # <<>> /\ In(normalized_nominees, normalized_name)
    THEN Some(IndexOf(normalized_nominees, normalized_name))
    ELSE nominee_id

\* A check that clamps an id past the end of the list to the last nominee.
CheckIdClamps(nominees_list, normalized_nominees, normalized_name, nominee_id) ==
    IF Falsy(nominee_id) THEN nominee_id
    ELSE LET idx_from_id == nominee_id[1] - 1 IN
         IF idx_from_id < 0 THEN None
         ELSE IF idx_from_id >= Len(nominees_list)
         THEN IF normalized_name # <<>> /\ In(normalized_nominees, normalized_name)
              THEN Some(IndexOf(normalized_nominees, normalized_name))
              ELSE IF nominees_list = <<>> THEN None
              ELSE Some(Len(nominees_list))
         ELSE IF /\ normalized_name # <<>>
                 /\ normalized_nominees[idx_from_id + 1] # normalized_name
                 /\ In(normalized_nominees, normalized_name)
              THEN Some(IndexOf(normalized_nominees, normalized_name))
              ELSE nominee_id

\* Lines 1585-1596: the id is checked against the list.
CheckId(nominees_list, normalized_nominees, normalized_name, nominee_id) ==
    IF Falsy(nominee_id) THEN nominee_id
    ELSE LET idx_from_id == nominee_id[1] - 1 IN
         IF idx_from_id < 0 \/ idx_from_id >= Len(nominees_list)
         THEN IF normalized_name # <<>> /\ In(normalized_nominees, normalized_name)
              THEN Some(IndexOf(normalized_nominees, normalized_name))
              ELSE None
         ELSE IF /\ normalized_name # <<>>
                 /\ normalized_nominees[idx_from_id + 1] # normalized_name
                 /\ In(normalized_nominees, normalized_name)
              THEN Some(IndexOf(normalized_nominees, normalized_name))
              ELSE nominee_id

\* A resolver that trusts a client id lying inside the list and turns to the
\* name only when the id is absent or outside it.
ResolveNomineeIdFirst(categories, category_id, nominee_id, nominee_name) ==
    IF ~HasCategory(categories, category_id[1]) THEN nominee_id
    ELSE LET nominees_list == SelectCategory(categories, category_id[1]).nominees
             normalized_nominees ==
                 [i \in 1..Len(nominees_list) |-> Lower(Strip(nominees_list[i]))]
             normalized_name == Lower(Strip(nominee_name))
         IN IF ~Falsy(nominee_id) /\ nominee_id[1] \in 1..Len(nominees_list)
            THEN nominee_id
            ELSE IF normalized_name # <<>> /\ In(normalized_nominees, normalized_name)
            THEN Some(IndexOf(normalized_nominees, normalized_name))
            ELSE None

\* Lines 1563-1596: the nominee id after validation against the list; the
\* client's id is left as it is when no category is selected.
ResolveNominee(categories, category_id, nominee_id, nominee_name) ==
    IF ~HasCategory(categories, category_id[1]) THEN nominee_id
    ELSE LET selected == SelectCategory(categories, category_id[1])
             nominees_list == selected.nominees
             normalized_nominees ==
                 [i \in 1..Len(nominees_list) |-> Lower(Strip(nominees_list[i]))]
             normalized_name == Lower(Strip(nominee_name))
         IN CheckId(nominees_list, normalized_nominees, normalized_name,
                    NameToId(normalized_nominees, normalized_name, nominee_id))

\* Lines 1549-1602: what the request is turned into before the ledger is
\* touched: a 400 with its message, or the validated pair of ids.
ValidateBody(categories, body) ==
    LET ids == ParseIds(body)
        nominee_name == Strip(body.nominee)
    IN IF Falsy(ids.category_id)
       THEN [status |-> 400, message |-> "Invalid category",
             category_id |-> 0, nominee_id |-> 0]
       ELSE LET nominee_id ==
                    ResolveNominee(categories, ids.category_id, ids.nominee_id,
                                   nominee_name)
            IN IF Falsy(nominee_id) \/ nominee_id[1] <= 0
               THEN [status |-> 400, message |-> "Invalid nominee",
                     category_id |-> 0, nominee_id |-> 0]
               ELSE IF ids.category_id[1] <= 0
               THEN [status |-> 400, message |-> "Invalid identifiers",
                     category_id |-> 0, nominee_id |-> 0]
               ELSE [status |-> 0, message |-> "",
                     category_id |-> ids.category_id[1],
                     nominee_id |-> nominee_id[1]]

----------------------------------------------------------------------------
(* Sessions and the Session Resolver.                                      *)

\* time_since_active > 1800 (seconds) ends a session.
INACTIVITY_SECONDS == 1800

\* expires_at = utcnow() + timedelta(days=31), in seconds.
SESSION_LIFETIME == 31 * 24 * 3600

\* The Flask cookie session: user_id and _id, 0 where the key is absent.
NoCookie == [user_id |-> 0, _id |-> 0]

\* The credential headers: X-Access-Code, and the text after the scheme word
\* of an Authorization header that starts with "bearer " (empty otherwise).
NoHeader == [x_access_code |-> <<>>, bearer |-> <<>>]

HasSession(rows, session_id) == \E s \in rows : s.id = session_id

SessionRow(rows, session_id) == CHOOSE s \in rows : s.id = session_id

\* A lookup that checks the row and leaves last_active as it was.
get_session_from_db_no_touch(rows, session_id) ==
    IF ~HasSession(rows, session_id)
    THEN [found |-> FALSE, user_id |-> 0, last_active |-> 0, sessions |-> rows]
    ELSE LET row == SessionRow(rows, session_id) IN
         IF now > row.expires_at
         THEN [found |-> FALSE, user_id |-> 0, last_active |-> 0,
               sessions |-> rows \ {row}]
         ELSE [found |-> TRUE, user_id |-> row.user_id,
               last_active |-> row.last_active, sessions |-> rows]

\* get_session_from_db: a missing row gives None; an expired row is deleted
\* and gives None; otherwise last_active is set to now and the row's user and
\* last_active are returned (PostgreSQL: the attribute just written; SQLite:
\* the value selected before the UPDATE).
get_session_from_db(rows, session_id) ==
    IF ~HasSession(rows, session_id)
    THEN [found |-> FALSE, user_id |-> 0, last_active |-> 0, sessions |-> rows]
    ELSE LET row == SessionRow(rows, session_id) IN
         IF now > row.expires_at
         THEN [found |-> FALSE, user_id |-> 0, last_active |-> 0,
               sessions |-> rows \ {row}]
         ELSE [found |-> TRUE, user_id |-> row.user_id,
               last_active |-> IF use_postgresql THEN now ELSE row.last_active,
               sessions |-> (rows \ {row}) \cup {[row EXCEPT !.last_active = now]}]

\* A cookie of the kind the resolver calls legacy: a user id and no
\* session id.
LegacyCookie(user_id, session_id) == [user_id |-> user_id, _id |-> 0]

\* session['_id'] = session_id; session['user_id'] = ...: the cookie that
\* signup, login and the header fallback set.
SessionCookie(user_id, session_id) == [user_id |-> user_id, _id |-> session_id]

\* A save that keeps one session per user: the user's other rows go.
save_session_single(rows, session_id, user_id, expires_at) ==
    {s \in rows : s.id # session_id /\ s.user_id # user_id}
        \cup {[id |-> session_id, user_id |-> user_id, last_active |-> now,
               expires_at |-> expires_at]}

\* save_session_to_db: INSERT OR REPLACE of the row of session_id.
save_session_to_db(rows, session_id, user_id, expires_at) ==
    {s \in rows : s.id # session_id}
        \cup {[id |-> session_id, user_id |-> user_id, last_active |-> now,
               expires_at |-> expires_at]}

\* A delete that never reaches the table.
delete_session_noop(rows, session_id) == rows

\* delete_session_from_db
delete_session_from_db(rows, session_id) == {s \in rows : s.id # session_id}

\* A lookup that trims the code and compares it as typed.
HasUserWithCodeAsTyped(code) == \E u \in users : u.access_code = Strip(code)

\* get_user_by_access_code_helper: the user whose access_code is
\* code.strip().upper(); found is FALSE when there is none.
HasUserWithCode(code) == \E u \in users : u.access_code = Upper(Strip(code))

get_user_by_access_code_helper(code) ==
    CHOOSE u \in users : u.access_code = Upper(Strip(code))

\* Lines 1951-1955: the code of the X-Access-Code header, else of a Bearer
\* Authorization header.
HeaderCode(header) ==
    IF Strip(header.x_access_code) # <<>> THEN Strip(header.x_access_code)
    ELSE Strip(header.bearer)

\* Lines 1950-1980: the header fallback over the session rows `rows`.
HeaderFallback(rows, cookie, header) ==
    LET code == HeaderCode(header) IN
    IF code # <<>> /\ HasUserWithCode(code)
    THEN LET user == get_user_by_access_code_helper(code)
             session_id == session_seq + 1
         IN [user_id |-> user.id,
             sessions |-> save_session_to_db(rows, session_id, user.id,
                                             now + SESSION_LIFETIME),
             session_seq |-> session_seq + 1,
             cookie |-> SessionCookie(user.id, session_id)]
    ELSE [user_id |-> 0, sessions |-> rows, session_seq |-> session_seq,
          cookie |-> cookie]

\* A resolver that looks at the header and never at the cookie.
authenticate_by_header_only(cookie, header) ==
    HeaderFallback(sessions, cookie, header)

\* authenticate_request_helper: the user id (0 for None), the session table,
\* the token counter and the cookie it leaves.
authenticate_request_helper(cookie, header) ==
    IF cookie.user_id # 0
    THEN IF cookie._id # 0
         THEN LET db_session == get_session_from_db(sessions, cookie._id) IN
              IF db_session.found
              THEN IF now - db_session.last_active > INACTIVITY_SECONDS
                   THEN [user_id |-> 0,
                         sessions |->
                             delete_session_from_db(db_session.sessions, cookie._id),
                         session_seq |-> session_seq,
                         cookie |-> NoCookie]
                   ELSE [user_id |-> cookie.user_id,
                         sessions |-> db_session.sessions,
                         session_seq |-> session_seq,
                         cookie |-> cookie]
              ELSE HeaderFallback(db_session.sessions, cookie, header)
         ELSE [user_id |-> cookie.user_id, sessions |-> sessions,
               session_seq |-> session_seq, cookie |-> cookie]
    ELSE HeaderFallback(sessions, cookie, header)

----------------------------------------------------------------------------
(* The Voting Gate.                                                        *)

\* The voting_config table holds no row keyed 'voting_active'.
NoRow == "(no row)"

\* A read that reports the gate closed when it raises.
get_voting_active_fail_closed(raises) ==
    IF raises THEN FALSE
    ELSE IF voting_config = NoRow THEN TRUE
    ELSE voting_config = "true"

\* get_voting_active_from_db, the value returned: the stored value compared
\* with 'true'; True when the row is missing, and True when the read raises.
get_voting_active_from_db(raises) ==
    IF raises THEN TRUE
    ELSE IF voting_config = NoRow THEN TRUE
    ELSE voting_config = "true"

\* get_voting_active_from_db, the table it leaves: a missing row is created
\* with value 'true'.
VotingConfigAfterRead(raises) ==
    IF ~raises /\ voting_config = NoRow THEN "true" ELSE voting_config

\* set_voting_active_in_db, the value written.
GateText(active) == IF active THEN "true" ELSE "false"

\* The shared secrets.
ADMIN_CODE == "B1E5Z0"
ANALYST_CODE == "HANS13"

\* The admin part of a request: the cookie flags admin_authenticated and
\* admin_role, and the X-Admin-Code header after strip().upper().
NoAdmin == [admin_authenticated |-> FALSE, admin_role |-> "", x_admin_code |-> ""]

\* A session check that looks at the flag and not at the role.
SessionIsAuthenticated(adm) == adm.admin_authenticated

\* require_admin, lines 1985-1988: the cookie flag with the role 'admin'.
SessionIsAdmin(adm) == adm.admin_authenticated /\ adm.admin_role = "admin"

\* A check that takes either shared secret in the header.
require_admin_or_analyst(adm) ==
    \/ SessionIsAdmin(adm)
    \/ adm.x_admin_code \in {ADMIN_CODE, ANALYST_CODE}

\* require_admin
require_admin(adm) ==
    \/ SessionIsAdmin(adm)
    \/ adm.x_admin_code = ADMIN_CODE

----------------------------------------------------------------------------
(* The Vote Ledger.                                                        *)

\* A check that looks up the wrong column: the nominee instead of the category.
HasVoteWrongColumn(user_id, category_id) ==
    \E v \in votes : v.user_id = user_id /\ v.nominee_id = category_id + 1

\* SELECT id FROM votes WHERE user_id = ? AND category_id = ?
HasVote(user_id, category_id) ==
    \E v \in votes : v.user_id = user_id /\ v.category_id = category_id

\* A votes table created without its UNIQUE constraint.
UniqueViolationNoConstraint(user_id, category_id) == FALSE

\* UNIQUE(user_id, category_id): would inserting this pair violate it?
UniqueViolation(user_id, category_id) ==
    \E v \in votes : v.user_id = user_id /\ v.category_id = category_id

\* FOREIGN KEY(user_id) REFERENCES users(id).  PostgreSQL enforces it; SQLite
\* does not unless PRAGMA foreign_keys is set, and get_db does not set it.
ForeignKeyViolation(user_id) ==
    use_postgresql /\ ~\E u \in users : u.id = user_id

\* An INSERT that stores the 0-based list index instead of the 1-based id.
NewVoteZeroBased(user_id, category_id, nominee_id) ==
    [id |-> vote_seq + 1, user_id |-> user_id, category_id |-> category_id,
     nominee_id |-> nominee_id - 1]

\* The row an INSERT INTO votes adds.
NewVote(user_id, category_id, nominee_id) ==
    [id |-> vote_seq + 1, user_id |-> user_id, category_id |-> category_id,
     nominee_id |-> nominee_id]

\* tally(category_id): the grouped count of category_results, as the set of
\* {nominee_id, votes} pairs it returns.
category_results(category_id) ==
    {[nominee_id |-> n,
      votes |-> Cardinality({v \in votes :
                    v.category_id = category_id /\ v.nominee_id = n})] :
     n \in {v.nominee_id : v \in {w \in votes : w.category_id = category_id}}}

----------------------------------------------------------------------------
(* Requests.                                                               *)

Reqs == 1..MaxReq

\* The JSON body of a cast with no fields.
NoBody == [category_id |-> None, nominee_id |-> None, nominee |-> <<>>]

\* The locals of a signup before it has any.
NoSignup ==
    [fullname |-> <<>>, phone |-> <<>>, birthdate |-> <<>>,
     access_code |-> <<>>]

\* A request that has not been sent.  pc is the place the handler has
\* reached; categories is the local of line 1563, the file as the request
\* loaded it; signup holds the locals of a signup; status and message are
\* the response, 0 while there is none.
IdleReq ==
    [pc |-> "idle", cookie |-> NoCookie, header |-> NoHeader, body |-> NoBody,
     gate_raised |-> FALSE, user_id |-> 0,
     categories |-> [ok |-> FALSE, data |-> <<>>],
     category_id |-> 0, nominee_id |-> 0, signup |-> NoSignup,
     status |-> 0, message |-> ""]

\* The handler returns: the response is fixed and the request is over.
Respond(req, status, message) ==
    [req EXCEPT !.pc = "done", !.status = status, !.message = message]

\* A cast that trusts the in-process cache instead of reading the store.
CastGateReadCached(raises) == VOTING_ACTIVE

\* Line 1541: cast_vote reads the gate from the store, not from the cache.
CastGateRead(raises) == get_voting_active_from_db(raises)

\* A handler without the early return of line 1543.
GateRejectsNever(voting_active) == FALSE

\* Line 1542: a gate read as closed ends the request before anything else.
GateRejects(voting_active) == ~voting_active

\* cast_vote, lines 1538-1543: the gate is read from the store first.
CastBegin(r, cookie, header, body, raises) ==
    /\ reqs[r].pc = "idle"
    /\ LET voting_active == CastGateRead(raises)
           req == [IdleReq EXCEPT !.cookie = cookie, !.header = header,
                                  !.body = body, !.gate_raised = raises]
       IN reqs' = [reqs EXCEPT ![r] =
                      IF GateRejects(voting_active)
                      THEN Respond(req, 403, "Voting session is closed.")
                      ELSE [req EXCEPT !.pc = "auth"]]
    /\ voting_config' = VotingConfigAfterRead(raises)
    /\ UNCHANGED <<retry, user_states, reply, use_postgresql, users, votes, vote_seq, sessions, session_seq,
                   VOTING_ACTIVE, categories_js, now, boots>>

\* cast_vote, lines 1545-1548: the Session Resolver.
CastAuth(r) ==
    /\ reqs[r].pc = "auth"
    /\ LET a == authenticate_request_helper(reqs[r].cookie, reqs[r].header)
           req == [reqs[r] EXCEPT !.cookie = a.cookie, !.user_id = a.user_id]
       IN /\ sessions' = a.sessions
          /\ session_seq' = a.session_seq
          /\ reqs' = [reqs EXCEPT ![r] =
                         IF a.user_id = 0
                         THEN Respond(req, 401, "Not authenticated")
                         ELSE [req EXCEPT !.pc = "resolve"]]
    /\ UNCHANGED <<retry, user_states, reply, use_postgresql, users, votes, vote_seq, voting_config,
                   VOTING_ACTIVE, categories_js, now, boots>>

\* cast_vote, lines 1549-1602: the body is parsed and the nominee resolved
\* against the categories file as it is now.
CastResolve(r) ==
    /\ reqs[r].pc = "resolve"
    /\ LET categories == load_categories_data
           v == ValidateBody(categories, reqs[r].body)
           req == [reqs[r] EXCEPT !.categories = categories]
       IN reqs' = [reqs EXCEPT ![r] =
                      IF v.status = 400
                      THEN Respond(req, 400, v.message)
                      ELSE [req EXCEPT !.pc = "txn",
                                       !.category_id = v.category_id,
                                       !.nominee_id = v.nominee_id]]
    /\ UNCHANGED <<retry, user_states, reply, use_postgresql, users, votes, vote_seq, sessions, session_seq,
                   voting_config, VOTING_ACTIVE, categories_js, now, boots>>

\* cast_vote, lines 1636-1669 (SQLite): BEGIN IMMEDIATE, the check, the
\* INSERT and the COMMIT hold the write lock and are one step.
CastTxnSqlite(r) ==
    /\ ~use_postgresql
    /\ reqs[r].pc = "txn"
    /\ LET req == reqs[r] IN
       IF HasVote(req.user_id, req.category_id)
       THEN /\ reqs' = [reqs EXCEPT ![r] =
                   Respond(req, 409, "You have already voted in this category")]
            /\ UNCHANGED <<votes, vote_seq>>
       ELSE IF \/ UniqueViolation(req.user_id, req.category_id)
               \/ ForeignKeyViolation(req.user_id)
       THEN /\ reqs' = [reqs EXCEPT ![r] =
                   Respond(req, 500, "Failed to record vote")]
            /\ UNCHANGED <<votes, vote_seq>>
       ELSE /\ votes' = votes \cup
                   {NewVote(req.user_id, req.category_id, req.nominee_id)}
            /\ vote_seq' = vote_seq + 1
            /\ reqs' = [reqs EXCEPT ![r] = Respond(req, 201, "Vote recorded")]
    /\ UNCHANGED <<retry, user_states, reply, use_postgresql, users, sessions, session_seq, voting_config,
                   VOTING_ACTIVE, categories_js, now, boots>>

\* cast_vote, lines 1606-1627 (PostgreSQL): SELECT ... FOR UPDATE.  With no
\* row to lock, nothing is locked, and the request goes on to insert.
CastSelectPg(r) ==
    /\ use_postgresql
    /\ reqs[r].pc = "txn"
    /\ reqs' = [reqs EXCEPT ![r] =
                   IF HasVote(reqs[r].user_id, reqs[r].category_id)
                   THEN Respond(reqs[r], 409,
                                "You have already voted in this category")
                   ELSE [reqs[r] EXCEPT !.pc = "commit"]]
    /\ UNCHANGED <<retry, user_states, reply, use_postgresql, users, votes, vote_seq, sessions, session_seq,
                   voting_config, VOTING_ACTIVE, categories_js, now, boots>>

\* cast_vote, lines 1629-1635 and 1670-1678 (PostgreSQL): the INSERT is
\* flushed and committed; an IntegrityError is caught by the handler's
\* `except Exception` and answered with 500.
CastCommitPg(r) ==
    /\ use_postgresql
    /\ reqs[r].pc = "commit"
    /\ LET req == reqs[r] IN
       IF \/ UniqueViolation(req.user_id, req.category_id)
          \/ ForeignKeyViolation(req.user_id)
       THEN /\ reqs' = [reqs EXCEPT ![r] =
                   Respond(req, 500, "Failed to record vote")]
            /\ UNCHANGED <<votes, vote_seq>>
       ELSE /\ votes' = votes \cup
                   {NewVote(req.user_id, req.category_id, req.nominee_id)}
            /\ vote_seq' = vote_seq + 1
            /\ reqs' = [reqs EXCEPT ![r] = Respond(req, 201, "Vote recorded")]
    /\ UNCHANGED <<retry, user_states, reply, use_postgresql, users, sessions, session_seq, voting_config,
                   VOTING_ACTIVE, categories_js, now, boots>>

\* Before any one-step handler has answered.  cookie, header and adm are what
\* the request carried, set_cookie the cookie session the response leaves,
\* deleted the row count an admin deletion reports.
NoReply ==
    [handler |-> "", cookie |-> NoCookie, header |-> NoHeader,
     raised |-> FALSE, status |-> 0, user_id |-> 0, logged_in |-> FALSE,
     set_cookie |-> NoCookie, category_id |-> 0, results |-> {},
     adm |-> NoAdmin, deleted |-> 0, voting_active |-> ""]

\* my_votes: the Session Resolver, then the caller's rows of the ledger; 401
\* when nobody is resolved.
my_votes(cookie, header) ==
    /\ LET a == authenticate_request_helper(cookie, header) IN
       /\ sessions' = a.sessions
       /\ session_seq' = a.session_seq
       /\ reply' = [NoReply EXCEPT
              !.handler = "my_votes", !.cookie = cookie, !.header = header,
              !.status = IF a.user_id = 0 THEN 401 ELSE 200,
              !.user_id = a.user_id,
              !.set_cookie = a.cookie,
              !.results = {[category_id |-> v.category_id,
                            nominee_id |-> v.nominee_id] :
                           v \in {w \in votes : w.user_id = a.user_id}}]
    /\ UNCHANGED <<retry, user_states, use_postgresql, users, votes, vote_seq, voting_config,
                   VOTING_ACTIVE, categories_js, now, boots, reqs>>

\* save_client_state: the Session Resolver, then the caller's row of
\* user_states is written (one row per user); 401 when nobody is resolved.
save_client_state(cookie, header) ==
    /\ LET a == authenticate_request_helper(cookie, header) IN
       /\ sessions' = a.sessions
       /\ session_seq' = a.session_seq
       /\ user_states' = IF a.user_id = 0 THEN user_states
                         ELSE user_states \cup {a.user_id}
       /\ reply' = [NoReply EXCEPT
              !.handler = "save_client_state", !.cookie = cookie,
              !.header = header,
              !.status = IF a.user_id = 0 THEN 401 ELSE 200,
              !.user_id = a.user_id,
              !.set_cookie = a.cookie]
    /\ UNCHANGED <<retry, use_postgresql, users, votes, vote_seq, voting_config,
                   VOTING_ACTIVE, categories_js, now, boots, reqs>>

\* authenticate_request_helper when queries may raise.  fails.session: the
\* session lookup raises, which get_session_from_db catches and turns into
\* None (lines 562-564), so the header fallback is tried.  fails.code: the
\* access-code lookup raises; nothing in the helper catches it, and it
\* reaches the caller (raised).
authenticate_request_raising(cookie, header, fails) ==
    LET cookie_path == cookie.user_id # 0 /\ cookie._id # 0
        db_session ==
            IF cookie_path /\ ~fails.session
            THEN get_session_from_db(sessions, cookie._id)
            ELSE [found |-> FALSE, user_id |-> 0, last_active |-> 0,
                  sessions |-> sessions]
        to_header == cookie.user_id = 0 \/ (cookie_path /\ ~db_session.found)
        a == IF cookie_path /\ fails.session
             THEN HeaderFallback(sessions, cookie, header)
             ELSE authenticate_request_helper(cookie, header)
    IN IF to_header /\ HeaderCode(header) # <<>> /\ fails.code
       THEN [raised |-> TRUE, user_id |-> 0, sessions |-> db_session.sessions,
             session_seq |-> session_seq, cookie |-> cookie]
       ELSE [raised |-> FALSE, user_id |-> a.user_id, sessions |-> a.sessions,
             session_seq |-> a.session_seq, cookie |-> a.cookie]

\* A handler whose `except` answers 500.
check_session_reraise(req) ==
    [req EXCEPT !.raised = TRUE, !.status = 500, !.logged_in = FALSE]

\* check_session, lines 1290-1297: any exception is answered 200 with
\* logged_in false.
check_session_except(req) ==
    [req EXCEPT !.raised = TRUE, !.status = 200, !.logged_in = FALSE]

\* check_session, lines 1246-1252: the Session Resolver; nobody resolved is
\* answered at once, otherwise the handler goes on to look the user up
\* (status 0: no response yet).
check_session(cookie, header, fails) ==
    /\ ~(reply.handler = "check_session" /\ reply.status = 0)
    /\ LET a == authenticate_request_raising(cookie, header, fails)
           req == [NoReply EXCEPT !.handler = "check_session",
                                  !.cookie = cookie, !.header = header,
                                  !.user_id = a.user_id,
                                  !.set_cookie = a.cookie]
       IN /\ sessions' = a.sessions
          /\ session_seq' = a.session_seq
          /\ reply' = IF a.raised THEN check_session_except(req)
                      ELSE IF a.user_id = 0 THEN [req EXCEPT !.status = 200]
                      ELSE req
    /\ UNCHANGED <<retry, user_states, use_postgresql, users, votes, vote_seq, voting_config,
                   VOTING_ACTIVE, categories_js, now, boots, reqs>>

\* check_session, lines 1254-1289: the user row of the resolved id is read;
\* logged_in is true when there is one.
check_session_user(raises) ==
    /\ reply.handler = "check_session" /\ reply.status = 0
    /\ reply' = IF raises THEN check_session_except(reply)
                ELSE [reply EXCEPT
                         !.status = 200,
                         !.logged_in = \E u \in users : u.id = reply.user_id]
    /\ UNCHANGED <<retry, user_states, use_postgresql, users, votes, vote_seq, sessions, session_seq,
                   voting_config, VOTING_ACTIVE, categories_js, now, boots, reqs>>

\* logout: the row named by the cookie's _id is deleted and the cookie
\* session is cleared.
\* ' '.join(s.split()) of a stripped string: runs of blanks become one.
RECURSIVE JoinSplit(_)
JoinSplit(s) ==
    IF Len(s) < 2 THEN s
    ELSE IF s[1] = " " /\ s[2] = " " THEN JoinSplit(Tail(s))
    ELSE <<s[1]>> \o JoinSplit(Tail(s))

\* normalize_name: ' '.join(str(value).strip().lower().split())
normalize_name(value) == JoinSplit(Lower(Strip(value)))

\* login: 400 on a missing field, 404 when no user has the name, 403 when
\* the user found has another access code; else a session row with a fresh
\* id is saved for the user and bound to the cookie.  The user is the row
\* the SELECT returns first, any row of the name.
login(form) ==
    LET firstname == Strip(form.firstname)
        lastname == Strip(form.lastname)
        access_code == Upper(Strip(form.access_code))
        fullname_normalized ==
            normalize_name(Strip(firstname \o <<" ">> \o lastname))
        found == {u \in users : Lower(Strip(u.fullname)) = fullname_normalized}
        session_id == session_seq + 1
        Answer(status) == [NoReply EXCEPT !.handler = "login", !.status = status]
    IN /\ IF firstname = <<>> \/ lastname = <<>> \/ access_code = <<>>
          THEN /\ reply' = Answer(400)
               /\ UNCHANGED <<sessions, session_seq>>
          ELSE IF found = {}
          THEN /\ reply' = Answer(404)
               /\ UNCHANGED <<sessions, session_seq>>
          ELSE \E user \in found :
                   IF user.access_code # access_code
                   THEN /\ reply' = Answer(403)
                        /\ UNCHANGED <<sessions, session_seq>>
                   ELSE /\ sessions' = save_session_to_db(sessions, session_id,
                                           user.id, now + SESSION_LIFETIME)
                        /\ session_seq' = session_seq + 1
                        /\ reply' = [Answer(200) EXCEPT
                               !.user_id = user.id,
                               !.set_cookie = SessionCookie(user.id,
                                                            session_id)]
       /\ UNCHANGED <<retry, user_states, use_postgresql, users, votes, vote_seq,
                      voting_config, VOTING_ACTIVE, categories_js, now, boots,
                      reqs>>

logout(cookie) ==
    /\ sessions' = IF cookie._id # 0
                   THEN delete_session_from_db(sessions, cookie._id)
                   ELSE sessions
    /\ reply' = [NoReply EXCEPT !.handler = "logout", !.cookie = cookie,
                                !.status = 200, !.set_cookie = NoCookie]
    /\ UNCHANGED <<retry, user_states, use_postgresql, users, votes, vote_seq, session_seq,
                   voting_config, VOTING_ACTIVE, categories_js, now, boots, reqs>>

\* datetime.utcnow() moves on to a later instant.
Tick(t) ==
    /\ t > now
    /\ now' = t
    /\ UNCHANGED <<retry, user_states, use_postgresql, users, votes, vote_seq, sessions, session_seq,
                   voting_config, VOTING_ACTIVE, categories_js, boots, reqs, reply>>

----------------------------------------------------------------------------
(* Gate and admin handlers.                                                *)

VotingActiveFieldOrClosed(value) == IF value = "absent" THEN "false" ELSE value

\* data.get('voting_active', True) of `request.get_json() or {}`: the field,
\* True when the body or the field is absent.
VotingActiveField(value) == IF value = "absent" THEN "true" ELSE value

\* What an admin handler answers.
AdminReply(handler, adm, status, deleted) ==
    [NoReply EXCEPT !.handler = handler, !.adm = adm, !.status = status,
                    !.deleted = deleted]

\* set_voting_status: on a successful write the row and the cache take the
\* truthiness of the field, and the response carries the cache as a JSON
\* boolean; a failed write (500) or a refused caller (403) changes nothing.
set_voting_status(adm, value, raises) ==
    /\ IF require_admin(adm) /\ ~raises
       THEN /\ voting_config' = GateText(Truthy(VotingActiveField(value)))
            /\ VOTING_ACTIVE' = Truthy(VotingActiveField(value))
       ELSE UNCHANGED <<voting_config, VOTING_ACTIVE>>
    /\ reply' = [AdminReply("set_voting_status", adm,
                            IF ~require_admin(adm) THEN 403
                            ELSE IF raises THEN 500 ELSE 200, 0)
                    EXCEPT !.voting_active =
                        IF require_admin(adm) /\ ~raises
                        THEN (IF VOTING_ACTIVE' THEN "true" ELSE "false")
                        ELSE ""]
    /\ UNCHANGED <<retry, user_states, use_postgresql, users, votes, vote_seq, sessions,
                   session_seq, categories_js, now, boots, reqs>>

\* get_voting_status (admin) refreshes the cache from the store.
get_voting_status(adm, raises) ==
    /\ IF require_admin(adm)
       THEN /\ VOTING_ACTIVE' = get_voting_active_from_db(raises)
            /\ voting_config' = VotingConfigAfterRead(raises)
       ELSE UNCHANGED <<voting_config, VOTING_ACTIVE>>
    /\ UNCHANGED <<retry, user_states, reply, use_postgresql, users, votes, vote_seq, sessions, session_seq,
                   categories_js, now, boots, reqs>>

\* public_voting_status refreshes the cache from the store.
public_voting_status(raises) ==
    /\ VOTING_ACTIVE' = get_voting_active_from_db(raises)
    /\ voting_config' = VotingConfigAfterRead(raises)
    /\ UNCHANGED <<retry, user_states, reply, use_postgresql, users, votes, vote_seq, sessions, session_seq,
                   categories_js, now, boots, reqs>>

\* A DELETE FROM votes that stops after the rows of one user.
DeleteVotesOfOneUser(rows) ==
    IF rows = {} THEN {}
    ELSE {v \in rows :
             v.user_id # (CHOOSE w \in rows :
                             \A x \in rows : w.user_id <= x.user_id).user_id}

\* DELETE FROM votes, committed: every row goes.
DeleteVotes(rows) == {}

\* reset_votes: 403 without admin rights; else DELETE FROM votes and commit
\* in one transaction, answered with the row count; when the statement or
\* the commit raises nothing is committed and the answer is 500.
reset_votes(adm, raises) ==
    /\ votes' = IF require_admin(adm) /\ ~raises THEN DeleteVotes(votes)
                ELSE votes
    /\ reply' = IF ~require_admin(adm) THEN AdminReply("reset_votes", adm, 403, 0)
                ELSE IF raises THEN AdminReply("reset_votes", adm, 500, 0)
                ELSE AdminReply("reset_votes", adm, 200, Cardinality(votes))
    /\ UNCHANGED <<retry, user_states, use_postgresql, users, vote_seq, sessions,
                   session_seq, voting_config, VOTING_ACTIVE, categories_js, now,
                   boots, reqs>>

\* A DELETE that names the wrong column: WHERE id = ?
DeleteVoteById(rows, user_id) == {v \in rows : v.id # user_id}

\* DELETE FROM votes WHERE user_id = ?
DeleteUserVotes(rows, user_id) == {v \in rows : v.user_id # user_id}

\* admin_reset_user_votes: 403 without admin rights, else the rows of the
\* user go and their count is reported.
admin_reset_user_votes(adm, user_id) ==
    /\ votes' = IF require_admin(adm)
                THEN DeleteUserVotes(votes, user_id)
                ELSE votes
    /\ reply' = IF ~require_admin(adm)
                THEN AdminReply("admin_reset_user_votes", adm, 403, 0)
                ELSE AdminReply("admin_reset_user_votes", adm, 200,
                         Cardinality({v \in votes : v.user_id = user_id}))
    /\ UNCHANGED <<retry, user_states, use_postgresql, users, vote_seq, sessions,
                   session_seq, voting_config, VOTING_ACTIVE, categories_js, now,
                   boots, reqs>>

\* A delete that commits after each statement and stops when one raises:
\* the sessions are gone, the rest is left.
DeleteUserRowsStepwise(user_id, raises) ==
    [sessions |-> {s \in sessions : s.user_id # user_id},
     user_states |-> IF raises THEN user_states ELSE user_states \ {user_id},
     votes |-> IF raises THEN votes ELSE {v \in votes : v.user_id # user_id},
     users |-> IF raises THEN users ELSE {u \in users : u.id # user_id}]

\* admin_delete_user, lines 2224-2266: four DELETEs and one commit; when a
\* statement or the commit raises, nothing is committed.
DeleteUserRows(user_id, raises) ==
    IF raises
    THEN [sessions |-> sessions, user_states |-> user_states, votes |-> votes,
          users |-> users]
    ELSE [sessions |-> {s \in sessions : s.user_id # user_id},
          user_states |-> user_states \ {user_id},
          votes |-> {v \in votes : v.user_id # user_id},
          users |-> {u \in users : u.id # user_id}]

\* admin_delete_user: the user's sessions, saved state, votes and row go in
\* one commit; 403 without admin rights, 500 when the transaction raises.
admin_delete_user(adm, user_id, raises) ==
    /\ IF require_admin(adm)
       THEN LET after == DeleteUserRows(user_id, raises) IN
            /\ sessions' = after.sessions
            /\ user_states' = after.user_states
            /\ votes' = after.votes
            /\ users' = after.users
       ELSE UNCHANGED <<retry, sessions, user_states, votes, users>>
    /\ reply' = IF reply.handler = "check_session" /\ reply.status = 0
                THEN reply  \* the locals of a check_session in flight
                ELSE [AdminReply("admin_delete_user", adm,
                                 IF ~require_admin(adm) THEN 403
                                 ELSE IF raises THEN 500 ELSE 200, 0)
                         EXCEPT !.user_id = user_id]
    /\ UNCHANGED <<retry, use_postgresql, vote_seq, session_seq, voting_config,
                   VOTING_ACTIVE, categories_js, now, boots, reqs>>

\* init_db, lines 113-116: INSERT OR IGNORE leaves a row that exists alone.
init_db(config) == IF config = NoRow THEN "true" ELSE config

\* Seconds in a day, and the calendar day an instant falls in.
DAY == 24 * 3600
DateOf(t) == t \div DAY

\* A cleanup that goes by last_active instead of expires_at.
cleanup_idle_sessions(rows) == {s \in rows : ~(s.last_active < now)}

\* cleanup_expired_sessions: the rows that stay.  PostgreSQL compares the
\* datetimes.  SQLite compares texts: expires_at was stored by isoformat()
\* ('2026-01-31T10:00:00') and CURRENT_TIMESTAMP is '2026-01-31 10:00:00', so
\* on equal dates 'T' > ' ' decides and the row stays; a row goes only when
\* its date is before today's.
cleanup_expired_sessions(rows) ==
    IF use_postgresql
    THEN {s \in rows : ~(s.expires_at < now)}
    ELSE {s \in rows : ~(DateOf(s.expires_at) < DateOf(now))}

\* The process restarts and create_app runs again (lines 758-776): requests
\* in flight are lost, the cache is loaded from the store, expired sessions
\* are cleaned up.  The store itself is what it was.
create_app(raises) ==
    /\ boots < MaxBoots
    /\ boots' = boots + 1
    /\ VOTING_ACTIVE' = get_voting_active_from_db(raises)
    /\ voting_config' = IF use_postgresql THEN VotingConfigAfterRead(raises)
                       ELSE init_db(VotingConfigAfterRead(raises))
    /\ sessions' = cleanup_expired_sessions(sessions)
    /\ reqs' = [r \in Reqs |->
                   IF reqs[r].pc \in {"idle", "done"} THEN reqs[r]
                   ELSE Respond(reqs[r], 0, "connection lost")]
    /\ UNCHANGED <<retry, user_states, reply, use_postgresql, users, votes, vote_seq, session_seq,
                   categories_js, now>>

----------------------------------------------------------------------------
(* The tally read and the reset of one category.                           *)

\* A tally read whose `except` answers 500.
category_results_error(category_id) ==
    [NoReply EXCEPT !.handler = "category_results", !.raised = TRUE,
                    !.status = 500, !.category_id = category_id]

\* category_results, lines 1711-1713: a failed query is answered 200 with
\* the requested category_id and an empty list.
category_results_except(category_id) ==
    [NoReply EXCEPT !.handler = "category_results", !.raised = TRUE,
                    !.status = 200, !.category_id = category_id,
                    !.results = {}]

\* GET /api/categories/<category_id>/results; raises: the query fails.
get_category_results(category_id, raises) ==
    /\ reply' = IF raises THEN category_results_except(category_id)
                ELSE [NoReply EXCEPT
                         !.handler = "category_results", !.status = 200,
                         !.category_id = category_id,
                         !.results = category_results(category_id)]
    /\ UNCHANGED <<retry, user_states, use_postgresql, users, votes, vote_seq, sessions, session_seq,
                   voting_config, VOTING_ACTIVE, categories_js, now, boots, reqs>>

IsDigitChar(c) == c \in {"0", "1", "2", "3", "4", "5", "6", "7", "8", "9"}

DigitValue(c) ==
    CASE c = "0" -> 0 [] c = "1" -> 1 [] c = "2" -> 2 [] c = "3" -> 3
      [] c = "4" -> 4 [] c = "5" -> 5 [] c = "6" -> 6 [] c = "7" -> 7
      [] c = "8" -> 8 [] c = "9" -> 9

\* str.isdigit()
isdigit(s) == s # <<>> /\ \A i \in 1..Len(s) : IsDigitChar(s[i])

\* int() of a string of digits
RECURSIVE ParseInt(_)
ParseInt(s) ==
    IF s = <<>> THEN 0
    ELSE ParseInt(SubSeq(s, 1, Len(s) - 1)) * 10 + DigitValue(s[Len(s)])

StartsWith(s, prefix) ==
    Len(prefix) <= Len(s) /\ SubSeq(s, 1, Len(prefix)) = prefix

\* The lines of data/categories.js that the reset handler looks at:
\* `number: <digits>`, `title: "<text>"`, and anything else.
NumberLine(digits) == [kind |-> "number", text |-> digits]
TitleLine(title) == [kind |-> "title", text |-> title]
OtherLine == [kind |-> "other", text |-> <<>>]

\* How many lines back from a title the handler looks for `number:`.
LOOKBACK == 20

\* re.search(rf'number:\s*{category_input}', content): the digits sent need
\* only begin the digits of some number line; the id is int(category_input).
\* 0 stands for None: `if not category_id` treats both alike.
FindCategoryByNumber(content, category_input) ==
    IF \E i \in 1..Len(content) :
           /\ content[i].kind = "number"
           /\ StartsWith(content[i].text, category_input)
    THEN ParseInt(category_input)
    ELSE 0

\* The first title equal to the input under upper(); from its line (j) back
\* to line max(0, j-20), exclusive, counting lines from 0, the nearest line
\* holding `number:` gives the id.
FindCategoryByTitle(content, category_input) ==
    LET hits == {i \in 1..Len(content) :
                    /\ content[i].kind = "title"
                    /\ Upper(content[i].text) = Upper(category_input)}
    IN IF hits = {} THEN 0
       ELSE LET j == CHOOSE i \in hits : \A h \in hits : i <= h
                first == IF j - LOOKBACK + 1 > 2 THEN j - LOOKBACK + 1 ELSE 2
                back == {k \in first..j : content[k].kind = "number"}
            IN IF back = {} THEN 0
               ELSE ParseInt(content[CHOOSE k \in back :
                                         \A b \in back : b <= k].text)

\* A reset that empties the whole ledger.
DeleteAllVotes(rows, category_id) == {}

\* DELETE FROM votes WHERE category_id = ?
DeleteCategoryVotes(rows, category_id) ==
    {v \in rows : v.category_id # category_id}

\* admin_reset_category_votes: 403 without admin rights, 400 on an empty
\* category, 404 when the file yields no id, else the rows of the id go.
\* content is data/categories.js as the handler reads it.
admin_reset_category_votes(adm, content, category) ==
    LET category_input == Strip(category)
        category_id ==
            IF isdigit(category_input)
            THEN FindCategoryByNumber(content, category_input)
            ELSE FindCategoryByTitle(content, category_input)
        status == IF ~require_admin(adm) THEN 403
                  ELSE IF category_input = <<>> THEN 400
                  ELSE IF category_id = 0 THEN 404
                  ELSE 200
    IN /\ votes' = IF status = 200 THEN DeleteCategoryVotes(votes, category_id)
                   ELSE votes
       /\ reply' = [AdminReply("admin_reset_category_votes", adm, status,
                        IF status = 200
                        THEN Cardinality({v \in votes :
                                            v.category_id = category_id})
                        ELSE 0)
                       EXCEPT !.category_id =
                                  IF status = 200 THEN category_id ELSE 0]
       /\ UNCHANGED <<retry, user_states, use_postgresql, users, vote_seq, sessions, session_seq,
                      voting_config, VOTING_ACTIVE, categories_js, now, boots,
                      reqs>>

\* A removal that keeps the rows of the nominee and clears their
\* nominee_id, an UPDATE in place of the DELETE.
ClearNomineeVotes(rows, category_id, nominee_index) ==
    {IF v.category_id = category_id /\ v.nominee_id = nominee_index + 1
     THEN [v EXCEPT !.nominee_id = 0] ELSE v : v \in rows}

\* DELETE FROM votes WHERE category_id = ? AND nominee_id = ?, with the
\* 1-based nominee_index + 1.
DeleteNomineeVotes(rows, category_id, nominee_index) ==
    {v \in rows : ~(v.category_id = category_id /\
                    v.nominee_id = nominee_index + 1)}

\* nominees_list.pop(nominee_index) in the first category numbered
\* category_id, as the file is written back.
PopNominee(categories, category_id, nominee_index) ==
    LET k == CHOOSE i \in 1..Len(categories.data) :
                 /\ categories.data[i].number = category_id
                 /\ \A j \in 1..(i - 1) : categories.data[j].number # category_id
        old == categories.data[k].nominees
    IN [categories EXCEPT !.data[k].nominees =
           [i \in 1..(Len(old) - 1) |->
               IF i <= nominee_index THEN old[i] ELSE old[i + 1]]]

\* admin_remove_nominee: 403 without admin rights; 500 when data/categories.js
\* cannot be read; 404 when it has no nominees array for the category; 400
\* on an index outside the array; else the array is written back without
\* the nominee and the votes with nominee_id = nominee_index + 1 are deleted
\* through get_db(), the SQLite file, which is the ledger only when
\* PostgreSQL is not in use.  legacy is data/categories.js as the handler
\* reads it; it is the file load_categories_data reads when
\* frontend/data/categories.js does not exist.
admin_remove_nominee(adm, frontend_exists, legacy, category_id, nominee_index) ==
    LET status == IF ~require_admin(adm) THEN 403
                  ELSE IF ~legacy.ok THEN 500
                  ELSE IF ~HasCategory(legacy, category_id) THEN 404
                  ELSE IF ~(0 <= nominee_index /\
                            nominee_index <
                                Len(SelectCategory(legacy, category_id).nominees))
                       THEN 400
                  ELSE 200
    IN /\ ~frontend_exists => legacy = categories_js
       /\ categories_js' = IF status = 200 /\ ~frontend_exists
                           THEN PopNominee(legacy, category_id, nominee_index)
                           ELSE categories_js
       /\ votes' = IF status = 200 /\ ~use_postgresql
                   THEN DeleteNomineeVotes(votes, category_id, nominee_index)
                   ELSE votes
       /\ reply' = [AdminReply("admin_remove_nominee", adm, status, 0)
                       EXCEPT !.category_id = category_id]
       /\ UNCHANGED <<retry, user_states, use_postgresql, users, vote_seq,
                      sessions, session_seq, voting_config, VOTING_ACTIVE,
                      now, boots, reqs>>

----------------------------------------------------------------------------
(* retry_db_operation.                                                     *)

\* No call of retry_db_operation yet.  attempt is the loop variable,
\* invocations counts the calls of the operation, slept lists the waits,
\* result is what the call returned or raised.
NoRetry ==
    [pc |-> "idle", max_retries |-> 0, delay |-> 0, outcomes |-> <<>>,
     attempt |-> 0, invocations |-> 0, slept |-> <<>>,
     last_exception |-> None, result |-> None]

\* `sub in s`
Contains(s, sub) ==
    \E i \in 1..(Len(s) - Len(sub) + 1) : SubSeq(s, i, i + Len(sub) - 1) = sub

\* is_retryable: the lowered message names ssl, connection, eof,
\* operationalerror or timeout.
is_retryable(e) ==
    LET error_str == Lower(e) IN
    \/ Contains(error_str, <<"s", "s", "l">>)
    \/ Contains(error_str, <<"c", "o", "n", "n", "e", "c", "t", "i", "o", "n">>)
    \/ Contains(error_str, <<"e", "o", "f">>)
    \/ Contains(error_str, <<"o", "p", "e", "r", "a", "t", "i", "o", "n", "a",
                             "l", "e", "r", "r", "o", "r">>)
    \/ Contains(error_str, <<"t", "i", "m", "e", "o", "u", "t">>)

\* A wait that does not grow.
wait_time_fixed(delay, attempt) == delay

\* delay * (2 ** attempt)
wait_time(delay, attempt) == delay * 2 ^ attempt

\* The call: the loop is entered with attempt 0, or, when range(max_retries)
\* is empty, left at once, and with last_exception None the function ends
\* without a return statement.  outcomes is what the operation does at each
\* of its invocations.
RetryCall(max_retries, delay, outcomes) ==
    /\ retry.pc = "idle"
    /\ retry' = [NoRetry EXCEPT
                    !.pc = IF max_retries > 0 THEN "call" ELSE "returned",
                    !.max_retries = max_retries, !.delay = delay,
                    !.outcomes = outcomes]
    /\ UNCHANGED <<user_states, reply, use_postgresql, users, votes, vote_seq,
                   sessions, session_seq, voting_config, VOTING_ACTIVE,
                   categories_js, now, boots, reqs>>

\* try: return operation(); except: classify, re-raise or go to sleep.
RetryAttempt ==
    /\ retry.pc = "call"
    /\ LET outcome == retry.outcomes[retry.invocations + 1]
           called == [retry EXCEPT !.invocations = @ + 1]
       IN IF outcome.ok
          THEN retry' = [called EXCEPT !.pc = "returned",
                                       !.result = Some(outcome.value)]
          ELSE IF \/ ~is_retryable(outcome.error)
                  \/ retry.attempt = retry.max_retries - 1
          THEN retry' = [called EXCEPT !.pc = "raised",
                                       !.last_exception = Some(outcome.error),
                                       !.result = Some(outcome.error)]
          ELSE retry' = [called EXCEPT
                            !.pc = "sleep",
                            !.last_exception = Some(outcome.error),
                            !.slept = Append(@, wait_time(retry.delay,
                                                          retry.attempt))]
    /\ UNCHANGED <<user_states, reply, use_postgresql, users, votes, vote_seq,
                   sessions, session_seq, voting_config, VOTING_ACTIVE,
                   categories_js, now, boots, reqs>>

\* time.sleep returns and the loop goes to its next attempt.
RetrySleep ==
    /\ retry.pc = "sleep"
    /\ retry' = [retry EXCEPT !.pc = "call", !.attempt = @ + 1]
    /\ UNCHANGED <<user_states, reply, use_postgresql, users, votes, vote_seq,
                   sessions, session_seq, voting_config, VOTING_ACTIVE,
                   categories_js, now, boots, reqs>>

----------------------------------------------------------------------------
(* Signup.                                                                 *)

\* normalize_phone: the digits, cut and padded to ten, after '+234'.
normalize_phone(value) ==
    LET LastTen(d) == IF Len(d) > 10 THEN SubSeq(d, Len(d) - 9, Len(d)) ELSE d
        ZeroFill(d) == [i \in 1..10 |->
                           IF i <= 10 - Len(d) THEN "0" ELSE d[i - (10 - Len(d))]]
        d0 == SelectSeq(value, IsDigitChar)
        d1 == IF StartsWith(d0, <<"2", "3", "4">>) /\ Len(d0) > 10
              THEN SubSeq(d0, 4, Len(d0)) ELSE d0
        d2 == IF StartsWith(d1, <<"0">>) /\ Len(d1) > 10 THEN Tail(d1) ELSE d1
        d3 == LastTen(d2)
        d4 == IF Len(d3) = 11 /\ StartsWith(d3, <<"0">>) THEN Tail(d3) ELSE d3
        d5 == LastTen(d4)
        d6 == IF Len(d5) = 9 THEN ZeroFill(d5) ELSE d5
        d7 == IF Len(d6) # 10 THEN ZeroFill(LastTen(d6)) ELSE d6
    IN IF d0 = <<>> THEN <<>> ELSE <<"+", "2", "3", "4">> \o d7

\* event_registration_users.json: Ab Ca, Ba Ca and a second person named
\* Ab Ca, each with a phone.
EventRegistration ==
    {[first_name |-> <<"A", "b">>, last_name |-> <<"C", "a">>,
      phone |-> <<"0", "8", "0", "1", "1", "1", "1", "1", "1", "1", "1">>],
     [first_name |-> <<"A", "b">>, last_name |-> <<"C", "a">>,
      phone |-> <<"0", "8", "0", "3", "3", "3", "3", "3", "3", "3", "3">>],
     [first_name |-> <<"B", "a">>, last_name |-> <<"C", "a">>,
      phone |-> <<"+", "2", "3", "4", "8", "0", "2", "2", "2", "2", "2", "2",
                  "2", "2">>]}

\* find_event_registration_entry: a record whose normalized names and phone
\* are those of the request.
find_event_registration_entry(first_name, last_name, phone) ==
    /\ normalize_name(first_name) # <<>>
    /\ normalize_name(last_name) # <<>>
    /\ normalize_phone(phone) # <<>>
    /\ \E record \in EventRegistration :
           /\ normalize_name(record.first_name) = normalize_name(first_name)
           /\ normalize_name(record.last_name) = normalize_name(last_name)
           /\ normalize_phone(record.phone) = normalize_phone(phone)

\* format_birthdate: 'DD MMM YYYY'; a month outside 1..12 reads "Jan".
format_birthdate(day, month, year) ==
    <<day,
      IF month \in 1..12
      THEN <<"Jan", "Feb", "Mar", "Apr", "May", "Jun", "Jul", "Aug", "Sep",
             "Oct", "Nov", "Dec">>[month]
      ELSE "Jan",
      year>>

\* The birthdates file as loaded at import.
ALLOWED_BIRTHDATES == {<<1, "Jan", 2000>>}

\* verify_birthdate
verify_birthdate(day, month, year) ==
    format_birthdate(day, month, year) \in ALLOWED_BIRTHDATES

\* The letters and digits the random draws of the generator come from.
CodeLetters == {"A"}
CodeDigits == {"1", "2"}

\* A generator that does not look at the stored codes.
DrawAnyAccessCode ==
    {<<l1, l2, l3, l4, d1, d2>> :
        l1 \in CodeLetters, l2 \in CodeLetters, l3 \in CodeLetters,
        l4 \in CodeLetters, d1 \in CodeDigits, d2 \in CodeDigits}

\* generate_access_code_helper: the codes it can return, four letters and
\* two digits drawn until no user row has the code.
generate_access_code_helper ==
    {code \in {<<l1, l2, l3, l4, d1, d2>> :
                  l1 \in CodeLetters, l2 \in CodeLetters, l3 \in CodeLetters,
                  l4 \in CodeLetters, d1 \in CodeDigits, d2 \in CodeDigits} :
        \A u \in users : u.access_code # code}

\* signup, lines 916-1005: the fields, the registration list, the phone
\* check and the access code.  The user rows are read here and written in
\* SignupInsert.
SignupBegin(r, form) ==
    /\ reqs[r].pc = "idle"
    /\ LET firstname == Strip(form.firstname)
           lastname == Strip(form.lastname)
           phone_raw == Strip(form.phone)
           fullname == Strip(firstname \o <<" ">> \o lastname)
           normalized_phone == normalize_phone(<<"+", "2", "3", "4">> \o phone_raw)
           req == [IdleReq EXCEPT !.signup =
                      [fullname |-> fullname, phone |-> normalized_phone,
                       birthdate |-> format_birthdate(form.day, form.month,
                                                      form.year),
                       access_code |-> <<>>]]
       IN IF \/ firstname = <<>> \/ lastname = <<>> \/ phone_raw = <<>>
             \/ form.day = 0 \/ form.month = 0 \/ form.year = 0
          THEN reqs' = [reqs EXCEPT ![r] =
                   Respond(req, 400, "Please fill all required fields")]
          ELSE IF normalized_phone = <<>>
          THEN reqs' = [reqs EXCEPT ![r] =
                   Respond(req, 400, "Invalid phone number")]
          ELSE IF ~find_event_registration_entry(firstname, lastname,
                                                 normalized_phone)
          THEN reqs' = [reqs EXCEPT ![r] =
                   Respond(req, 403, "You cant create an account")]
          ELSE IF \E u \in users : u.phone = normalized_phone
          THEN reqs' = [reqs EXCEPT ![r] =
                   Respond(req, 409, "This phone number is already registered")]
          ELSE \E code \in generate_access_code_helper :
                   reqs' = [reqs EXCEPT ![r] =
                       [req EXCEPT !.pc = "insert",
                                   !.signup.access_code = code]]
    /\ UNCHANGED <<retry, user_states, reply, use_postgresql, users, votes, vote_seq,
                   sessions, session_seq, voting_config, VOTING_ACTIVE,
                   categories_js, now, boots>>

\* signup, lines 1006-1094: the INSERT and its commit, refused by the UNIQUE
\* constraint on access_code (500); then the session row and the cookie.
\* No user is deleted in a specification that signs users up, so the next
\* id is the number of rows plus one.
SignupInsert(r) ==
    /\ reqs[r].pc = "insert"
    /\ LET su == reqs[r].signup
           user_id == Cardinality(users) + 1
           session_id == session_seq + 1
       IN IF \E u \in users : u.access_code = su.access_code
          THEN /\ reqs' = [reqs EXCEPT ![r] =
                      Respond(reqs[r], 500, "Error creating account")]
               /\ UNCHANGED <<users, sessions, session_seq>>
          ELSE /\ users' = users \cup
                      {[id |-> user_id, access_code |-> su.access_code,
                        fullname |-> su.fullname, phone |-> su.phone,
                        birthdate |-> su.birthdate]}
               /\ sessions' = sessions \cup
                      {[id |-> session_id, user_id |-> user_id,
                        last_active |-> now,
                        expires_at |-> now + SESSION_LIFETIME]}
               /\ session_seq' = session_seq + 1
               /\ reqs' = [reqs EXCEPT ![r] =
                      [Respond(reqs[r], 200, "Account created successfully")
                          EXCEPT !.user_id = user_id,
                                 !.cookie = SessionCookie(user_id,
                                                          session_id)]]
    /\ UNCHANGED <<retry, user_states, reply, use_postgresql, votes, vote_seq,
                   voting_config, VOTING_ACTIVE, categories_js, now, boots>>

----------------------------------------------------------------------------
(* Initial store and the inputs the clients send.                          *)

\* The registered users.
Users0 ==
    {[id |-> 1, access_code |-> <<"A", "1">>,
      fullname |-> <<"A", "b", " ", "C", "a">>],
     [id |-> 2, access_code |-> <<"B", "2">>,
      fullname |-> <<"B", "a", " ", "C", "a">>]}

UserIds == {u.id : u \in Users0}

\* One session per user, created at time 0 by a login.
Sessions0 ==
    {[id |-> u.id, user_id |-> u.id, last_active |-> 0,
      expires_at |-> SESSION_LIFETIME] : u \in Users0}

\* The cookie a login left with the owner of session s.
CookieOf(s) == [user_id |-> s.user_id, _id |-> s.id]

\* The categories file: category 1 with nominees "a", "b"; category 2 with "c".
Categories0 ==
    [ok |-> TRUE,
     data |-> <<[number |-> 1, nominees |-> << <<"a">>, <<"b">> >>],
                [number |-> 2, nominees |-> << <<"c">> >>]>>]

\* Credentials: none, or the cookie of a session.
Creds ==
    {[cookie |-> NoCookie, header |-> NoHeader]}
    \cup {[cookie |-> CookieOf(s), header |-> NoHeader] : s \in Sessions0}

\* Bodies: nominee 1 of category 1 by id, nominee 2 of category 1 by name,
\* an id outside category 1's list, and nominee 1 of category 2.
Bodies ==
    {[category_id |-> Some(1), nominee_id |-> Some(1), nominee |-> <<>>],
     [category_id |-> Some(1), nominee_id |-> None, nominee |-> <<"B", " ">>],
     [category_id |-> Some(1), nominee_id |-> Some(3), nominee |-> <<>>],
     [category_id |-> Some(2), nominee_id |-> Some(1), nominee |-> <<"c">>]}

\* An admin request with the admin secret in X-Admin-Code.
AdminHeader == [NoAdmin EXCEPT !.x_admin_code = ADMIN_CODE]

\* What an admin request may carry: nothing, either secret in the header, or
\* the cookie flags either login leaves.
AdminCreds ==
    {NoAdmin, AdminHeader,
     [NoAdmin EXCEPT !.x_admin_code = ANALYST_CODE],
     [NoAdmin EXCEPT !.admin_authenticated = TRUE, !.admin_role = "admin"],
     [NoAdmin EXCEPT !.admin_authenticated = TRUE, !.admin_role = "analyst"]}

\* The values of the voting_active field of a set-voting-status body.
GateValues == {"absent", "true", "false", "'false'", "0"}

\* The store after create_app on a new database.
InitStore ==
    /\ use_postgresql \in BOOLEAN
    /\ users = Users0
    /\ votes = {}
    /\ vote_seq = 0
    /\ sessions = Sessions0
    /\ session_seq = Cardinality(Sessions0)
    /\ voting_config = "true"
    /\ VOTING_ACTIVE = TRUE
    /\ now = 0
    /\ boots = 0
    /\ reqs = [r \in Reqs |-> IdleReq]
    /\ reply = NoReply
    /\ user_states = {}
    /\ retry = NoRetry

----------------------------------------------------------------------------
(* Spec: the ledger under concurrent casts, gate changes and admin         *)
(* deletions.                                                              *)

Init == InitStore /\ categories_js = Categories0

Next ==
    \/ \E r \in Reqs, c \in Creds, b \in Bodies :
           CastBegin(r, c.cookie, c.header, b, FALSE)
    \/ \E r \in Reqs : CastAuth(r)
    \/ \E r \in Reqs : CastResolve(r)
    \/ \E r \in Reqs : CastTxnSqlite(r)
    \/ \E r \in Reqs : CastSelectPg(r)
    \/ \E r \in Reqs : CastCommitPg(r)
    \/ \E adm \in {NoAdmin, AdminHeader}, value \in {"true", "false"} :
           set_voting_status(adm, value, FALSE)
    \/ \E adm \in {NoAdmin, AdminHeader} : reset_votes(adm, FALSE)
    \/ \E adm \in {NoAdmin, AdminHeader}, u \in UserIds :
           admin_reset_user_votes(adm, u)
    \/ \E adm \in {NoAdmin, AdminHeader}, u \in UserIds :
           admin_delete_user(adm, u, FALSE)

Spec == Init /\ [][Next]_vars

----------------------------------------------------------------------------
(* SpecGate: the gate, its cache and restarts, with reads and writes of    *)
(* the store that may raise.                                               *)

\* Credentials and bodies of the casts: with and without a session, with a
\* valid and with an empty body.
GateCreds ==
    {[cookie |-> NoCookie, header |-> NoHeader],
     [cookie |-> [user_id |-> 1, _id |-> 1], header |-> NoHeader]}

GateBodies ==
    {NoBody, [category_id |-> Some(1), nominee_id |-> Some(1), nominee |-> <<>>]}

NextGate ==
    \/ \E r \in Reqs, c \in GateCreds, b \in GateBodies, raises \in BOOLEAN :
           CastBegin(r, c.cookie, c.header, b, raises)
    \/ \E r \in Reqs : CastAuth(r)
    \/ \E r \in Reqs : CastResolve(r)
    \/ \E r \in Reqs : CastTxnSqlite(r)
    \/ \E r \in Reqs : CastSelectPg(r)
    \/ \E r \in Reqs : CastCommitPg(r)
    \/ \E adm \in AdminCreds, value \in GateValues, raises \in BOOLEAN :
           set_voting_status(adm, value, raises)
    \/ \E adm \in AdminCreds, raises \in BOOLEAN : get_voting_status(adm, raises)
    \/ \E raises \in BOOLEAN : public_voting_status(raises)
    \/ \E raises \in BOOLEAN : create_app(raises)

SpecGate == Init /\ [][NextGate]_vars

----------------------------------------------------------------------------
(* SpecStatus: set-voting-status with every kind of caller, field value    *)
(* and outcome of the write, a read that refreshes the cache, and the      *)
(* casts of one request.                                                   *)

NextStatus ==
    \/ \E c \in GateCreds, b \in GateBodies :
           CastBegin(1, c.cookie, c.header, b, FALSE)
    \/ CastAuth(1)
    \/ CastResolve(1)
    \/ CastTxnSqlite(1)
    \/ CastSelectPg(1)
    \/ CastCommitPg(1)
    \/ \E adm \in AdminCreds, value \in GateValues, raises \in BOOLEAN :
           set_voting_status(adm, value, raises)
    \/ \E raises \in BOOLEAN : public_voting_status(raises)

SpecStatus == Init /\ [][NextStatus]_vars

----------------------------------------------------------------------------
(* SpecFailOpen: the gate read on a store that may hold no voting_active   *)
(* row.  init_db writes the row of the SQLite file only, so a PostgreSQL   *)
(* store has none until a read creates it.                                 *)

InitFailOpen ==
    /\ use_postgresql \in BOOLEAN
    /\ users = Users0
    /\ votes = {}
    /\ vote_seq = 0
    /\ sessions = Sessions0
    /\ session_seq = Cardinality(Sessions0)
    /\ voting_config = IF use_postgresql THEN NoRow ELSE "true"
    /\ VOTING_ACTIVE = TRUE
    /\ categories_js = Categories0
    /\ now = 0
    /\ boots = 0
    /\ reqs = [r \in Reqs |-> IdleReq]
    /\ reply = NoReply
    /\ user_states = {}
    /\ retry = NoRetry

NextFailOpen ==
    \/ \E r \in Reqs, c \in GateCreds, b \in GateBodies, raises \in BOOLEAN :
           CastBegin(r, c.cookie, c.header, b, raises)
    \/ \E r \in Reqs : CastAuth(r)
    \/ \E r \in Reqs : CastResolve(r)
    \/ \E r \in Reqs : CastTxnSqlite(r)
    \/ \E r \in Reqs : CastSelectPg(r)
    \/ \E r \in Reqs : CastCommitPg(r)
    \/ \E value \in {"true", "false"}, raises \in BOOLEAN :
           set_voting_status(AdminHeader, value, raises)
    \/ \E raises \in BOOLEAN : create_app(raises)

SpecFailOpen == InitFailOpen /\ [][NextFailOpen]_vars

----------------------------------------------------------------------------
(* SpecRace: concurrent casts alone, the gate open throughout and no       *)
(* admin handler running.                                                  *)

NextRace ==
    \/ \E r \in Reqs, c \in Creds, b \in Bodies :
           CastBegin(r, c.cookie, c.header, b, FALSE)
    \/ \E r \in Reqs : CastAuth(r)
    \/ \E r \in Reqs : CastResolve(r)
    \/ \E r \in Reqs : CastTxnSqlite(r)
    \/ \E r \in Reqs : CastSelectPg(r)
    \/ \E r \in Reqs : CastCommitPg(r)

SpecRace == Init /\ [][NextRace]_vars

----------------------------------------------------------------------------
(* SpecResolve: one cast by a logged-in user, over the bodies a client can *)
(* send and the categories files the server can find.                      *)

\* Longest nominee list of a category in the files tried.
MaxNominees == 2

\* Nominee names as written in the file, and names as clients send them.
ListNames == {<<"a">>, <<"A", " ">>, <<"b">>}
ClientNames == {<<>>, <<" ">>, <<"a">>, <<" ", "A">>, <<"B">>, <<"c">>}

\* Every list of at most MaxNominees names.
RECURSIVE ListsUpTo(_)
ListsUpTo(n) ==
    IF n = 0 THEN {<<>>}
    ELSE ListsUpTo(n - 1) \cup
         {Append(l, x) : l \in {m \in ListsUpTo(n - 1) : Len(m) = n - 1},
                         x \in ListNames}

\* The files: missing or unparsable (None), category 1 alone, and category 1
\* after a category 2.
CategoryFiles ==
    {[ok |-> FALSE, data |-> <<>>]}
    \cup {[ok |-> TRUE, data |-> <<[number |-> 1, nominees |-> l]>>] :
          l \in ListsUpTo(MaxNominees)}
    \cup {[ok |-> TRUE,
           data |-> <<[number |-> 2, nominees |-> << <<"b">> >>],
                      [number |-> 1, nominees |-> l]>>] :
          l \in ListsUpTo(MaxNominees)}

\* The ids a body can carry: absent, not a number, and integers around the
\* ends of the lists.
CategoryIdValues == {None, Bad, Some(-1), Some(0), Some(1), Some(9)}
NomineeIdValues == {None, Bad, Some(-1), Some(0), Some(1), Some(2), Some(3), Some(4)}

ResolveBodies ==
    [category_id : CategoryIdValues, nominee_id : NomineeIdValues,
     nominee : ClientNames]

InitResolve == InitStore /\ categories_js \in CategoryFiles

NextResolve ==
    \/ \E b \in ResolveBodies :
           CastBegin(1, [user_id |-> 1, _id |-> 1], NoHeader, b, FALSE)
    \/ CastAuth(1)
    \/ CastResolve(1)
    \/ CastTxnSqlite(1)
    \/ CastSelectPg(1)
    \/ CastCommitPg(1)

SpecResolve == InitResolve /\ [][NextResolve]_vars

----------------------------------------------------------------------------
(* SpecReorder: two users cast for category 1 while the categories file is *)
(* rewritten between and during their requests.                            *)

\* The file is rewritten on disk; load_categories_data() reads it anew on
\* every call, so every later resolution sees the new list.
EditCategoriesFile(file) ==
    /\ categories_js # file
    /\ categories_js' = file
    /\ UNCHANGED <<retry, user_states, use_postgresql, users, votes, vote_seq, sessions, session_seq,
                   voting_config, VOTING_ACTIVE, now, boots, reqs, reply>>

\* Category 1 with every list of at most MaxNominees names that holds "b":
\* alone, before or after another name, twice.
ReorderFiles ==
    {[ok |-> TRUE, data |-> <<[number |-> 1, nominees |-> l]>>] :
     l \in {m \in ListsUpTo(MaxNominees) : In(m, <<"b">>)}}

\* Bodies for category 1: an id of a two-name list or none, and a name or none.
ReorderBodies ==
    [category_id : {Some(1)}, nominee_id : {None, Some(1), Some(2)},
     nominee : {<<>>, <<"B">>, <<" ", "A">>}]

InitReorder == InitStore /\ categories_js \in ReorderFiles

NextReorder ==
    \/ \E r \in Reqs, b \in ReorderBodies :
           /\ r \in UserIds
           /\ CastBegin(r, [user_id |-> r, _id |-> r], NoHeader, b, FALSE)
    \/ \E r \in Reqs : CastAuth(r)
    \/ \E r \in Reqs : CastResolve(r)
    \/ \E r \in Reqs : CastTxnSqlite(r)
    \/ \E r \in Reqs : CastSelectPg(r)
    \/ \E r \in Reqs : CastCommitPg(r)
    \/ \E file \in ReorderFiles : EditCategoriesFile(file)

SpecReorder == InitReorder /\ [][NextReorder]_vars

----------------------------------------------------------------------------
(* SpecSession: the Session Resolver over time.  Requests come with any    *)
(* cookie the server has signed and with access-code headers; the clock    *)
(* moves between them; the process may restart.  The store answers every   *)
(* query.                                                                  *)

\* Session rows that may ever exist: the initial ones and those the header
\* fallback creates.
MaxSessions == 3

\* The instants the clock visits: the last second of the inactivity window
\* after a use at 0 and the first second past it, the first second past the
\* expiry of the initial sessions, and the same time a day later.
Instants ==
    {0, INACTIVITY_SECONDS, INACTIVITY_SECONDS + 1,
     SESSION_LIFETIME + 1, SESSION_LIFETIME + 1 + DAY}

\* The session of user 2 belongs to a client that stays idle: its row is
\* there for expiry and cleanup to act on.
IdleSessionId == 2

\* The cookies the clients followed can present: none, or one the server
\* signed for session 1 or for a session the header fallback created.  The
\* server signs a cookie with the session's owner, and the cookie outlives
\* the row.  (The owner named in a cookie whose row is gone is never read:
\* lines 1899-1900.)
SessionCookies ==
    {NoCookie}
    \cup {CookieOf(s) : s \in {x \in sessions : x.id # IdleSessionId}}
    \cup {[user_id |-> 1, _id |-> i] :
          i \in {j \in 1..session_seq :
                    j # IdleSessionId /\ ~HasSession(sessions, j)}}

\* Credential headers: none, the code of user 2 in X-Access-Code in lower
\* case and padded, the code of user 1 as a Bearer token, a code of no user.
SessionHeaders ==
    {NoHeader,
     [x_access_code |-> <<" ", "b", "2">>, bearer |-> <<>>],
     [x_access_code |-> <<>>, bearer |-> <<"a", "1", " ">>],
     [x_access_code |-> <<"c", "1">>, bearer |-> <<>>]}

\* The headers sent while the header fallback may still create a session.
HeadersNow == IF session_seq < MaxSessions THEN SessionHeaders ELSE {NoHeader}

\* The credentials of the casts of SpecSession: any cookie without a header,
\* or no cookie and a code of no user.
CastCreds ==
    {[cookie |-> c, header |-> NoHeader] : c \in SessionCookies}
    \cup {[cookie |-> NoCookie, header |-> h] :
          h \in {g \in SessionHeaders : ~HasUserWithCode(HeaderCode(g))}}

\* The body of the casts of SpecSession.
SessionBody == [category_id |-> Some(1), nominee_id |-> Some(1), nominee |-> <<>>]

NextSession ==
    \/ \E t \in Instants : Tick(t)
    \/ \E c \in SessionCookies, h \in HeadersNow : my_votes(c, h)
    \/ \E c \in SessionCookies : logout(c)
    \/ \E c \in CastCreds : CastBegin(1, c.cookie, c.header, SessionBody, FALSE)
    \/ CastAuth(1)
    \/ CastResolve(1)
    \/ CastTxnSqlite(1)
    \/ CastSelectPg(1)
    \/ CastCommitPg(1)
    \/ create_app(FALSE)

SpecSession == Init /\ [][NextSession]_vars

----------------------------------------------------------------------------
(* SpecCheck: /check-session while an admin deletes users and sessions are *)
(* logged out, with lookups that may raise.                                *)

\* Which lookups of the resolver raise.
LookupFailures == [session : BOOLEAN, code : BOOLEAN]

NextCheck ==
    \/ \E c \in SessionCookies, h \in HeadersNow, f \in LookupFailures :
           check_session(c, h, f)
    \/ \E raises \in BOOLEAN : check_session_user(raises)
    \/ \E u \in UserIds : admin_delete_user(AdminHeader, u, FALSE)

SpecCheck == Init /\ [][NextCheck]_vars

----------------------------------------------------------------------------
(* SpecTally: casts, tally reads and resets of one category.               *)

\* The category ids a tally read asks for: the two listed ones and one more.
TallyIds == {1, 2, 3}

\* data/categories.js: both categories, number before title; category 2
\* alone; and a file whose only number is 12.
LegacyFiles ==
    {<<OtherLine, NumberLine(<<"1">>), TitleLine(<<"a">>),
       NumberLine(<<"2">>), TitleLine(<<"b">>)>>,
     <<OtherLine, NumberLine(<<"2">>), TitleLine(<<"b">>)>>,
     <<OtherLine, NumberLine(<<"1", "2">>), TitleLine(<<"a">>)>>}

\* The `category` field of a reset: empty, blank, numbers, titles.
ResetInputs ==
    {<<>>, <<" ">>, <<"1">>, <<" ", "2">>, <<"0">>, <<"a">>, <<"B", " ">>,
     <<"c">>}

NextTally ==
    \/ \E r \in Reqs, c \in Creds, b \in Bodies :
           CastBegin(r, c.cookie, c.header, b, FALSE)
    \/ \E r \in Reqs : CastAuth(r)
    \/ \E r \in Reqs : CastResolve(r)
    \/ \E r \in Reqs : CastTxnSqlite(r)
    \/ \E r \in Reqs : CastSelectPg(r)
    \/ \E r \in Reqs : CastCommitPg(r)
    \/ \E c \in TallyIds, raises \in BOOLEAN : get_category_results(c, raises)
    \/ \E adm \in {NoAdmin, AdminHeader}, content \in LegacyFiles,
          category \in ResetInputs :
           admin_reset_category_votes(adm, content, category)

SpecTally == Init /\ [][NextTally]_vars

----------------------------------------------------------------------------
(* SpecAdmin: every admin operation under every kind of caller, with a     *)
(* cast and a saved state of user 1 for them to act on.                    *)

\* Casts for nominee 1 of either category.
AdminBodies ==
    {[category_id |-> Some(c), nominee_id |-> Some(1), nominee |-> <<>>] :
     c \in {1, 2}}

\* The legacy categories file of a category reset.
AdminFile ==
    <<OtherLine, NumberLine(<<"1">>), TitleLine(<<"a">>),
      NumberLine(<<"2">>), TitleLine(<<"b">>)>>

NextAdmin ==
    \/ \E b \in AdminBodies :
           CastBegin(1, [user_id |-> 1, _id |-> 1], NoHeader, b, FALSE)
    \/ CastAuth(1)
    \/ CastResolve(1)
    \/ CastTxnSqlite(1)
    \/ CastSelectPg(1)
    \/ CastCommitPg(1)
    \/ save_client_state([user_id |-> 1, _id |-> 1], NoHeader)
    \/ \E raises \in BOOLEAN : public_voting_status(raises)
    \/ \E adm \in AdminCreds, value \in {"true", "false"} :
           set_voting_status(adm, value, FALSE)
    \/ \E adm \in AdminCreds : reset_votes(adm, FALSE)
    \/ \E adm \in AdminCreds : admin_reset_user_votes(adm, 1)
    \/ \E adm \in AdminCreds :
           admin_reset_category_votes(adm, AdminFile, <<"a">>)
    \/ \E adm \in AdminCreds : admin_delete_user(adm, 1, FALSE)

SpecAdmin == Init /\ [][NextAdmin]_vars

----------------------------------------------------------------------------
(* SpecPurge: the deletions of the ledger, failing and succeeding, among   *)
(* the casts and saved states of both users.                               *)

NextPurge ==
    \/ \E r \in Reqs, b \in AdminBodies :
           CastBegin(r, [user_id |-> r, _id |-> r], NoHeader, b, FALSE)
    \/ \E r \in Reqs : CastAuth(r)
    \/ \E r \in Reqs : CastResolve(r)
    \/ \E r \in Reqs : CastTxnSqlite(r)
    \/ \E r \in Reqs : CastSelectPg(r)
    \/ \E r \in Reqs : CastCommitPg(r)
    \/ \E s \in Sessions0 : save_client_state(CookieOf(s), NoHeader)
    \/ \E raises \in BOOLEAN : reset_votes(AdminHeader, raises)
    \/ \E u \in UserIds : admin_reset_user_votes(AdminHeader, u)
    \/ admin_reset_category_votes(AdminHeader, AdminFile, <<"2">>)
    \/ \E u \in UserIds, raises \in BOOLEAN :
           admin_delete_user(AdminHeader, u, raises)
    \/ \E legacy \in {[ok |-> TRUE, data |-> <<>>],
                       [ok |-> TRUE,
                        data |-> <<[number |-> 1, nominees |-> << <<"a">> >>]>>]},
          nominee_index \in {0, 1} :
           admin_remove_nominee(AdminHeader, TRUE, legacy, 1, nominee_index)

SpecPurge == Init /\ [][NextPurge]_vars

----------------------------------------------------------------------------
(* SpecRevote: casts of either user from either request, among the three   *)
(* resets of the ledger.                                                   *)

NextRevote ==
    \/ \E r \in Reqs, s \in Sessions0, b \in AdminBodies :
           CastBegin(r, CookieOf(s), NoHeader, b, FALSE)
    \/ \E r \in Reqs : CastAuth(r)
    \/ \E r \in Reqs : CastResolve(r)
    \/ \E r \in Reqs : CastTxnSqlite(r)
    \/ \E r \in Reqs : CastSelectPg(r)
    \/ \E r \in Reqs : CastCommitPg(r)
    \/ reset_votes(AdminHeader, FALSE)
    \/ \E u \in UserIds : admin_reset_user_votes(AdminHeader, u)
    \/ \E category \in {<<"a">>, <<"2">>} :
           admin_reset_category_votes(AdminHeader, AdminFile, category)

SpecRevote == Init /\ [][NextRevote]_vars

----------------------------------------------------------------------------
(* SpecNominee: casts for the two nominees of category 1 and removals of   *)
(* a nominee, data/categories.js being the file the casts read.            *)

NextNominee ==
    \/ \E r \in Reqs, n \in {1, 2} :
           CastBegin(r, [user_id |-> r, _id |-> r], NoHeader,
                     [NoBody EXCEPT !.category_id = Some(1),
                                    !.nominee_id = Some(n)], FALSE)
    \/ \E r \in Reqs : CastAuth(r)
    \/ \E r \in Reqs : CastResolve(r)
    \/ \E r \in Reqs : CastTxnSqlite(r)
    \/ \E r \in Reqs : CastSelectPg(r)
    \/ \E r \in Reqs : CastCommitPg(r)
    \/ \E nominee_index \in {0, 1} :
           admin_remove_nominee(AdminHeader, FALSE, categories_js, 1,
                                nominee_index)

SpecNominee == Init /\ [][NextNominee]_vars

----------------------------------------------------------------------------
(* SpecSignup: signups, in sequence and at the same time, on a store with  *)
(* no user.                                                                *)

\* What is sent: Ab Ca with an allowed birthdate; the same person written
\* otherwise, with a birthdate that is not on the list; Ba Ca; a person who
\* is not registered; and a form with no last name.
SignupForms ==
    {[firstname |-> <<" ", "A", "b">>, lastname |-> <<"C", "a">>,
      phone |-> <<"0", "8", "0", "1", "1", "1", "1", "1", "1", "1", "1">>,
      day |-> 1, month |-> 1, year |-> 2000],
     [firstname |-> <<"a", "B">>, lastname |-> <<"c", "a", " ">>,
      phone |-> <<"8", "0", "1", "1", "1", "1", "1", "1", "1", "1">>,
      day |-> 2, month |-> 1, year |-> 2000],
     [firstname |-> <<"B", "a">>, lastname |-> <<"C", "a">>,
      phone |-> <<"8", "0", "2", "2", "2", "2", "2", "2", "2", "2">>,
      day |-> 1, month |-> 1, year |-> 2000],
     [firstname |-> <<"C", "b">>, lastname |-> <<"C", "a">>,
      phone |-> <<"0", "8", "0", "1", "1", "1", "1", "1", "1", "1", "1">>,
      day |-> 1, month |-> 1, year |-> 2000],
     [firstname |-> <<"A", "b">>, lastname |-> <<" ">>,
      phone |-> <<"0", "8", "0", "1", "1", "1", "1", "1", "1", "1", "1">>,
      day |-> 1, month |-> 1, year |-> 2000]}

InitSignup ==
    /\ use_postgresql \in BOOLEAN
    /\ users = {}
    /\ votes = {}
    /\ vote_seq = 0
    /\ sessions = {}
    /\ session_seq = 0
    /\ voting_config = "true"
    /\ VOTING_ACTIVE = TRUE
    /\ categories_js = Categories0
    /\ now = 0
    /\ boots = 0
    /\ reqs = [r \in Reqs |-> IdleReq]
    /\ reply = NoReply
    /\ user_states = {}
    /\ retry = NoRetry

NextSignup ==
    \/ \E r \in Reqs, form \in SignupForms : SignupBegin(r, form)
    \/ \E r \in Reqs : SignupInsert(r)

SpecSignup == InitSignup /\ [][NextSignup]_vars

----------------------------------------------------------------------------
(* SpecDevices: one user on several devices: logins, requests with a       *)
(* cookie or an access-code header, logouts, and time.                     *)

\* The session ids handed out.
MaxDevices == 4

\* What is sent to login: user 1 in another spelling, user 1 with the code
\* of user 2, a name no user has, and a form without a last name.
LoginForms ==
    {[firstname |-> <<" ", "A", "b">>, lastname |-> <<"c", "a">>,
      access_code |-> <<"a", "1", " ">>],
     [firstname |-> <<"A", "b">>, lastname |-> <<"C", "a">>,
      access_code |-> <<"B", "2">>],
     [firstname |-> <<"C", "b">>, lastname |-> <<"C", "a">>,
      access_code |-> <<"A", "1">>],
     [firstname |-> <<"A", "b">>, lastname |-> <<" ">>,
      access_code |-> <<"A", "1">>]}

\* The cookies of the devices: of every session handed out, deleted since
\* or not.
DeviceCookies ==
    {NoCookie} \cup {CookieOf(s) : s \in sessions}
        \cup {[user_id |-> 1, _id |-> i] : i \in 1..session_seq}

DeviceHeaders ==
    {NoHeader, [x_access_code |-> <<>>, bearer |-> <<"a", "1", " ">>]}

NextDevices ==
    \/ \E t \in {INACTIVITY_SECONDS, INACTIVITY_SECONDS + 1,
                 2 * INACTIVITY_SECONDS + 1} : Tick(t)
    \/ \E form \in LoginForms : session_seq < MaxDevices /\ login(form)
    \/ \E c \in DeviceCookies, h \in DeviceHeaders :
           /\ h # NoHeader => session_seq < MaxDevices
           /\ my_votes(c, h)
    \/ \E c \in DeviceCookies : logout(c)

SpecDevices == Init /\ [][NextDevices]_vars

----------------------------------------------------------------------------
(* SpecCookie: from an empty store, signups, logins, requests with a       *)
(* cookie or an access-code header, logouts and time; every cookie sent is *)
(* one the program has set, the session cookie being signed.               *)

\* The cookies set so far: by the signups, by the last one-step handler,
\* and those of the rows in the store, all of which this program created.
ProducedCookies ==
    {NoCookie} \cup {reqs[r].cookie : r \in Reqs} \cup {reply.set_cookie}
        \cup {CookieOf(s) : s \in sessions}

NextCookie ==
    \/ \E form \in {f \in SignupForms : f.day = 1} : SignupBegin(1, form)
    \/ SignupInsert(1)
    \/ \E code \in {<<"a", "a", "a", "a", "1", "1">>,
                    <<"A", "A", "A", "A", "1", "2">>} :
           /\ session_seq < MaxSessions
           /\ login([firstname |-> <<"a", "b">>, lastname |-> <<"C", "A">>,
                     access_code |-> code])
    \/ \E c \in ProducedCookies,
          h \in {NoHeader, [x_access_code |-> <<"a", "a", "a", "a", "1", "1">>,
                            bearer |-> <<>>]} :
           /\ h # NoHeader => session_seq < MaxSessions
           /\ my_votes(c, h)
    \/ \E c \in ProducedCookies : logout(c)
    \/ \E t \in {INACTIVITY_SECONDS + 1, SESSION_LIFETIME + 1} : Tick(t)

SpecCookie == InitSignup /\ [][NextCookie]_vars

----------------------------------------------------------------------------
(* SpecLogin: from an empty store, the signups of the two registered       *)
(* persons named Ab Ca, and logins under that name and another.            *)

\* The signup forms of the two persons named Ab Ca, one per request.
NamesakeForms ==
    <<[firstname |-> <<"A", "b">>, lastname |-> <<"C", "a">>,
      phone |-> <<"0", "8", "0", "1", "1", "1", "1", "1", "1", "1", "1">>,
      day |-> 1, month |-> 1, year |-> 2000],
     [firstname |-> <<"a", "b">>, lastname |-> <<"C", "a">>,
      phone |-> <<"0", "8", "0", "3", "3", "3", "3", "3", "3", "3", "3">>,
      day |-> 1, month |-> 1, year |-> 2000]>>

\* What is sent to login: the name Ab Ca in another spelling or the name
\* Ba Ca, with a code as typed.
LoginAttempts ==
    {[firstname |-> f, lastname |-> <<"C", "A", " ">>, access_code |-> code] :
        f \in {<<"a", "B">>, <<"B", "a">>},
        code \in {<<"a", "a", "a", "a", "1", "1", " ">>,
                  <<"A", "A", "A", "A", "1", "2">>,
                  <<"A", "A", "A", "A", "2", "1">>}}

NextLogin ==
    \/ \E r \in Reqs \cap DOMAIN NamesakeForms :
           SignupBegin(r, NamesakeForms[r])
    \/ \E r \in Reqs : SignupInsert(r)
    \/ \E form \in LoginAttempts : session_seq < MaxDevices /\ login(form)

SpecLogin == InitSignup /\ [][NextLogin]_vars

----------------------------------------------------------------------------
(* SpecRetry: one call of retry_db_operation, with every course of the     *)
(* operation.  The operation returns or raises and the sleep ends, hence   *)
(* the fairness of the two steps.                                          *)

\* The largest max_retries passed; the callers pass 2 or leave the default 3.
MaxRetries == 3

\* Delays, in tenths of a second: 0.3 and the default 0.5.
RetryDelays == {3, 5}

\* What an invocation of the operation does: it returns 7, or raises a
\* dropped connection, an SSL end of file, or a constraint violation.
OperationOutcomes ==
    {[ok |-> TRUE, value |-> 7, error |-> <<>>],
     [ok |-> FALSE, value |-> 0,
      error |-> <<"C", "o", "n", "n", "e", "c", "t", "i", "o", "n", " ",
                  "r", "e", "s", "e", "t">>],
     [ok |-> FALSE, value |-> 0,
      error |-> <<"S", "S", "L", " ", "E", "O", "F">>],
     [ok |-> FALSE, value |-> 0,
      error |-> <<"U", "N", "I", "Q", "U", "E">>]}

NextRetry ==
    \/ \E max_retries \in 0..MaxRetries, delay \in RetryDelays,
          outcomes \in [1..MaxRetries -> OperationOutcomes] :
           RetryCall(max_retries, delay, outcomes)
    \/ RetryAttempt
    \/ RetrySleep

SpecRetry ==
    /\ Init
    /\ [][NextRetry]_vars
    /\ WF_vars(RetryAttempt)
    /\ WF_vars(RetrySleep)

----------------------------------------------------------------------------
(* The claims.                                                             *)

\* The categories and nominee ids the ledger of Spec can hold.
LedgerCategories == 1..2
LedgerNominees == 0..3

\* The count tally(c) gives nominee n: 0 when it lists no such nominee.
TallyCount(c, n) ==
    IF \E e \in category_results(c) : e.nominee_id = n
    THEN (CHOOSE e \in category_results(c) : e.nominee_id = n).votes
    ELSE 0

RECURSIVE SumVotes(_)
SumVotes(entries) ==
    IF entries = {} THEN 0
    ELSE LET e == CHOOSE x \in entries : TRUE
         IN e.votes + SumVotes(entries \ {e})

\* C1: in every reachable state, whatever the interleaving of casts (several
\* by one user for one category with different nominees included) and admin
\* resets and deletions, the ledger holds at most one row per
\* (user_id, category_id).
C1_OneVotePerUserCategory ==
    \A v, w \in votes :
        (v.user_id = w.user_id /\ v.category_id = w.category_id) => v = w

\* Two casts of one user for one category with different nominees are both
\* answered, one with 201, and the ledger holds a row for the pair.
C1_Witness ==
    \E r, q \in Reqs :
        /\ r # q
        /\ reqs[r].status = 201
        /\ reqs[q].pc = "done" /\ reqs[q].status \in {409, 500}
        /\ reqs[q].user_id = reqs[r].user_id
        /\ reqs[q].category_id = reqs[r].category_id
        /\ reqs[q].nominee_id # reqs[r].nominee_id
        /\ \E v \in votes : /\ v.user_id = reqs[r].user_id
                            /\ v.category_id = reqs[r].category_id

\* C2: when the casts of one authenticated user for one category run
\* concurrently with the gate open and no vote for the pair yet, once they
\* are all answered exactly one has 201 and every other has 409; none has
\* the 500 of a raw uniqueness violation.
C2_OneCreatedOthersConflict ==
    \A r \in Reqs :
        reqs[r].category_id # 0 =>
            LET same == {q \in Reqs :
                            /\ reqs[q].category_id = reqs[r].category_id
                            /\ reqs[q].user_id = reqs[r].user_id}
            IN (\A q \in same : reqs[q].pc = "done") =>
                   /\ Cardinality({q \in same : reqs[q].status = 201}) = 1
                   /\ \A q \in same : reqs[q].status \in {201, 409}

\* C4: no vote row is inserted once a close of the gate has been persisted
\* and acknowledged: every step that adds a row starts with the stored gate
\* open.
C4_NoInsertAfterClose ==
    [][votes' \subseteq votes \/ voting_config = "true"]_vars

\* C6: a cast that reaches the ledger when a vote of its user for its
\* category exists is answered 409, whatever nominee it names, and leaves the
\* ledger and the tally of the category as they were.
C6_RepeatCastConflicts ==
    [][\A r \in Reqs :
          (/\ reqs[r].pc = "txn"
           /\ reqs'[r] # reqs[r]
           /\ \E v \in votes : /\ v.user_id = reqs[r].user_id
                               /\ v.category_id = reqs[r].category_id)
          => /\ reqs'[r].status = 409
             /\ votes' = votes
             /\ category_results(reqs[r].category_id)'
                    = category_results(reqs[r].category_id)]_vars

\* A cast for another nominee than the one its user voted for got 409.
C6_Witness ==
    \E r \in Reqs :
        /\ reqs[r].status = 409
        /\ \E v \in votes : /\ v.user_id = reqs[r].user_id
                            /\ v.category_id = reqs[r].category_id
                            /\ v.nominee_id # reqs[r].nominee_id

\* C7: a cast answered 201 adds exactly one row (its user, its category, the
\* resolved nominee) and nothing else, so the tally of that nominee grows by
\* one and no other count changes; and in every state tally(c) gives each
\* nominee the number of rows of (c, nominee), its counts summing to the
\* number of users who voted in c.
C7_CastAddsOneRowTallyCounts ==
    [][/\ \A r \in Reqs :
             (reqs[r].status # 201 /\ reqs'[r].status = 201) =>
                 /\ \E row \in votes' \ votes :
                        /\ votes' = votes \cup {row}
                        /\ row.user_id = reqs[r].user_id
                        /\ row.category_id = reqs[r].category_id
                        /\ row.nominee_id = reqs[r].nominee_id
                 /\ \A c \in LedgerCategories, n \in LedgerNominees :
                        TallyCount(c, n)' =
                            TallyCount(c, n) +
                            (IF c = reqs[r].category_id /\ n = reqs[r].nominee_id
                             THEN 1 ELSE 0)
       /\ \A c \in LedgerCategories :
             /\ \A e \in category_results(c)' :
                    /\ e.votes > 0
                    /\ e.votes = Cardinality({v \in votes' :
                           v.category_id = c /\ v.nominee_id = e.nominee_id})
             /\ SumVotes(category_results(c)') =
                    Cardinality({v.user_id : v \in {w \in votes' : w.category_id = c}})
      ]_vars

\* Two users voted for nominee 1 of category 1 and the tally says 2.
C7_Witness ==
    /\ TallyCount(1, 1) = 2
    /\ \E r, q \in Reqs : r # q /\ reqs[r].status = 201 /\ reqs[q].status = 201

C5_GateDecidedByStore ==
    [][/\ \A r \in Reqs :
             (reqs[r].pc = "idle" /\ reqs'[r].pc # "idle") =>
                 (reqs'[r].status = 403
                      <=> (~reqs'[r].gate_raised /\ voting_config \notin {"true", NoRow}))
       /\ boots' # boots => voting_config' = voting_config]_vars

\* After a restart the gate is still closed in the store while the cache says
\* open, and a cast was answered 403.
C5_Witness ==
    /\ boots = 1
    /\ voting_config = "false"
    /\ VOTING_ACTIVE
    /\ \E r \in Reqs : reqs[r].status = 403

----------------------------------------------------------------------------
(* The claims about nominee resolution, over SpecResolve.                  *)

\* The request has been through nominee resolution.
Resolved(r) ==
    \/ reqs[r].pc \in {"txn", "commit"}
    \/ reqs[r].pc = "done" /\ reqs[r].status \in {201, 400, 409, 500}

\* Both ids of the body are integers or absent, and the category is given.
IdsParse(b) ==
    /\ b.category_id \notin {None, Bad}
    /\ b.nominee_id # Bad

\* The file lists a category numbered as the body asks.
CategoryListed(b) ==
    /\ categories_js.ok
    /\ \E i \in 1..Len(categories_js.data) :
           categories_js.data[i].number = b.category_id[1]

\* The nominee list of that category (of the first one so numbered).
NomineesOf(b) ==
    LET i == CHOOSE k \in 1..Len(categories_js.data) :
                 /\ categories_js.data[k].number = b.category_id[1]
                 /\ \A j \in 1..(k - 1) :
                        categories_js.data[j].number # b.category_id[1]
    IN categories_js.data[i].nominees

\* Position p holds the first entry of the list equal to the body's name,
\* both trimmed and lower-cased.
FirstMatch(b, p) ==
    /\ p \in 1..Len(NomineesOf(b))
    /\ Strip(b.nominee) # <<>>
    /\ Lower(Strip(NomineesOf(b)[p])) = Lower(Strip(b.nominee))
    /\ \A j \in 1..(p - 1) :
           Lower(Strip(NomineesOf(b)[j])) # Lower(Strip(b.nominee))

\* The row the request of r recorded holds nominee n.
Recorded(r, n) ==
    \E v \in votes : /\ v.user_id = reqs[r].user_id
                     /\ v.category_id = reqs[r].body.category_id[1]
                     /\ v.nominee_id = n

\* C8: when the name sent, trimmed and lower-cased, equals an entry of the
\* current list of the category, resolution succeeds and the nominee id
\* recorded is 1 + the index of the first such entry, whatever id was sent
\* (absent, inside the list at another name, outside the list).
C8_NameWins ==
    \A r \in Reqs :
        LET b == reqs[r].body IN
        (Resolved(r) /\ IdsParse(b) /\ CategoryListed(b)) =>
            \A p \in 1..Len(NomineesOf(b)) :
                FirstMatch(b, p) =>
                    /\ reqs[r].status # 400
                    /\ reqs[r].nominee_id = p
                    /\ reqs[r].status = 201 => Recorded(r, p)

\* The list now starts with "b"; the client sent nominee_id 2 with the name
\* "B"; the vote recorded is for nominee 1.
C8_Witness ==
    \E r \in Reqs :
        LET b == reqs[r].body IN
        /\ reqs[r].status = 201
        /\ b.category_id = Some(1) /\ b.nominee_id = Some(2) /\ b.nominee = <<"B">>
        /\ CategoryListed(b)
        /\ FirstMatch(b, 1)
        /\ Recorded(r, 1)

\* C9: when no name is sent, or the name equals no entry of the current list
\* of the category, the id sent is recorded unchanged if and only if it lies
\* in [1, len(nominees)]; an absent, zero, negative or too large id is
\* answered 400 "Invalid nominee" with no vote written, never moved to a
\* valid index.
C9_IdFallbackInRangeOnly ==
    \A r \in Reqs :
        LET b == reqs[r].body IN
        (/\ Resolved(r) /\ IdsParse(b) /\ CategoryListed(b)
         /\ ~\E p \in 1..Len(NomineesOf(b)) : FirstMatch(b, p)) =>
            IF b.nominee_id # None /\ b.nominee_id[1] \in 1..Len(NomineesOf(b))
            THEN /\ reqs[r].status # 400
                 /\ reqs[r].nominee_id = b.nominee_id[1]
                 /\ reqs[r].status = 201 => Recorded(r, b.nominee_id[1])
            ELSE /\ reqs[r].status = 400
                 /\ reqs[r].message = "Invalid nominee"
                 /\ votes = {}

\* An id past the end of the list, sent with a name that is not in it, was
\* answered 400 "Invalid nominee" and nothing was recorded.
C9_Witness ==
    \E r \in Reqs :
        LET b == reqs[r].body IN
        /\ reqs[r].status = 400 /\ reqs[r].message = "Invalid nominee"
        /\ b.category_id = Some(1) /\ b.nominee_id = Some(3) /\ b.nominee = <<"c">>
        /\ CategoryListed(b)
        /\ Len(NomineesOf(b)) = 2
        /\ votes = {}

\* C10: when the file lists no category numbered as the body asks, or cannot
\* be loaded, resolution fails: the request is answered 400 and no vote is
\* recorded, a positive client id included.
C10_UnknownCategoryFails ==
    \A r \in Reqs :
        LET b == reqs[r].body IN
        (Resolved(r) /\ IdsParse(b) /\ ~CategoryListed(b)) =>
            /\ reqs[r].status = 400
            /\ votes = {}

----------------------------------------------------------------------------
(* C11, over SpecReorder.                                                  *)

\* The file lists a category numbered as the body asks.
ListedIn(file, b) ==
    /\ file.ok
    /\ \E i \in 1..Len(file.data) : file.data[i].number = b.category_id[1]

\* The nominee list of that category in the file.
NomineesIn(file, b) ==
    LET i == CHOOSE k \in 1..Len(file.data) :
                 /\ file.data[k].number = b.category_id[1]
                 /\ \A j \in 1..(k - 1) : file.data[j].number # b.category_id[1]
    IN file.data[i].nominees

\* Position p holds the first entry of the file's list equal to the body's
\* name, both trimmed and lower-cased.
FirstMatchIn(file, b, p) ==
    /\ p \in 1..Len(NomineesIn(file, b))
    /\ Strip(b.nominee) # <<>>
    /\ Lower(Strip(NomineesIn(file, b)[p])) = Lower(Strip(b.nominee))
    /\ \A j \in 1..(p - 1) :
           Lower(Strip(NomineesIn(file, b)[j])) # Lower(Strip(b.nominee))

\* C11: resolution is a function of the request and of the list it loaded.
\* Two requests for the same category with the same name, resolved against
\* the same list, get the same outcome and the same nominee id when they sent
\* the same id or when the name is in the list; and a name that is in the
\* list a request loaded resolves to its first position in that list, whatever
\* id (stale after a reorder or a removal) came with it.
C11_ResolutionFollowsCurrentList ==
    \A r \in Reqs :
        LET b == reqs[r].body
            file == reqs[r].categories
        IN (Resolved(r) /\ IdsParse(b) /\ ListedIn(file, b)) =>
            /\ \A p \in 1..Len(NomineesIn(file, b)) :
                   FirstMatchIn(file, b, p) =>
                       reqs[r].status # 400 /\ reqs[r].nominee_id = p
            /\ \A q \in Reqs :
                   (/\ Resolved(q)
                    /\ reqs[q].categories = file
                    /\ reqs[q].body.category_id = b.category_id
                    /\ Lower(Strip(reqs[q].body.nominee)) = Lower(Strip(b.nominee))
                    /\ \/ reqs[q].body.nominee_id = b.nominee_id
                       \/ \E p \in 1..Len(NomineesIn(file, b)) :
                              FirstMatchIn(file, b, p))
                   => /\ (reqs[q].status = 400) <=> (reqs[r].status = 400)
                      /\ reqs[q].nominee_id = reqs[r].nominee_id

\* Two users sent nominee_id 1 with the name "B": one while the list was
\* "b", "a" and was recorded for nominee 1, the other after the list had
\* become "a", "b" and was recorded for nominee 2.
C11_Witness ==
    \E r, q \in Reqs :
        /\ reqs[q].status = 201 /\ reqs[r].status = 201
        /\ reqs[q].body = [category_id |-> Some(1), nominee_id |-> Some(1),
                           nominee |-> <<"B">>]
        /\ reqs[r].body = reqs[q].body
        /\ reqs[q].categories.ok /\ reqs[r].categories.ok
        /\ NomineesIn(reqs[q].categories, reqs[q].body) = << <<"b">>, <<"a">> >>
        /\ NomineesIn(reqs[r].categories, reqs[r].body) = << <<"a">>, <<"b">> >>
        /\ \E v \in votes : v.user_id = reqs[q].user_id /\ v.nominee_id = 1
        /\ \E v \in votes : v.user_id = reqs[r].user_id /\ v.nominee_id = 2

----------------------------------------------------------------------------
(* C12..C17, over SpecSession.                                             *)

\* The row s has not reached its absolute expiry.
NotExpired(s) == ~(now > s.expires_at)

\* The row s was last active more than the inactivity window ago.
Idle(s) == now - s.last_active > INACTIVITY_SECONDS

\* After the step, the row s is there with last_active set to now and
\* nothing else changed.
Touched(s) == [s EXCEPT !.last_active = now] \in sessions'

\* C12: a request whose cookie names a row that exists, has not expired and
\* was last active at most 1800 s ago is resolved to the row's user, and the
\* row's last_active becomes the time of the request (its expiry stays), for
\* /my-votes and /vote alike.  Each use therefore opens a new window of 30
\* minutes, up to the absolute expiry.
C12_LiveSessionResolvedAndTouched ==
    [][\A s \in sessions :
          (NotExpired(s) /\ ~Idle(s)) =>
              /\ \A h \in SessionHeaders :
                     my_votes(CookieOf(s), h) =>
                         /\ reply'.status = 200
                         /\ reply'.user_id = s.user_id
                         /\ Touched(s)
              /\ \A r \in Reqs :
                     (CastAuth(r) /\ reqs[r].cookie = CookieOf(s)) =>
                         /\ reqs'[r].pc = "resolve"
                         /\ reqs'[r].user_id = s.user_id
                         /\ Touched(s)]_vars

\* On SQLite, session 1, last active at 0, was used in the last second of its
\* window: the request was answered for user 1 and the row now says 1800.
C12_Witness ==
    /\ ~use_postgresql
    /\ now = INACTIVITY_SECONDS
    /\ reply.handler = "my_votes" /\ reply.cookie = [user_id |-> 1, _id |-> 1]
    /\ reply.status = 200 /\ reply.user_id = 1
    /\ \E s \in sessions : s.id = 1 /\ s.last_active = INACTIVITY_SECONDS

\* C13: a request whose cookie names a row last active more than 1800 s ago
\* is unauthenticated and the row is deleted, not extended; and a cookie whose
\* row is gone, sent without an access-code header, is unauthenticated.
C13_IdleSessionRejectedAndDeleted ==
    [][/\ \A s \in sessions :
              (NotExpired(s) /\ Idle(s)) =>
                  /\ \A h \in SessionHeaders :
                         my_votes(CookieOf(s), h) =>
                             /\ reply'.status = 401
                             /\ ~HasSession(sessions', s.id)
                  /\ \A r \in Reqs :
                         (CastAuth(r) /\ reqs[r].cookie = CookieOf(s)) =>
                             /\ reqs'[r].status = 401
                             /\ ~HasSession(sessions', s.id)
       /\ \A c \in SessionCookies :
              (c # NoCookie /\ ~HasSession(sessions, c._id)) =>
                  /\ my_votes(c, NoHeader) =>
                         reply'.status = 401 /\ sessions' = sessions
                  /\ \A r \in Reqs :
                         (/\ CastAuth(r) /\ reqs[r].cookie = c
                          /\ reqs[r].header = NoHeader) =>
                             reqs'[r].status = 401 /\ sessions' = sessions]_vars

\* C14: a request whose cookie names a row past its expires_at is not
\* authenticated by that session, and the row is deleted by the request
\* itself: without a header the answer is 401, with one the request can only
\* be given another session.  The cleanup at start-up removes nothing but rows
\* whose expires_at is in the past, and what a resolve returns for the
\* cookie of any row is the same after it as before it.
C14_ExpiredSessionNeverAuthenticates ==
    [][/\ \A s \in sessions :
              now > s.expires_at =>
                  /\ \A h \in SessionHeaders :
                         (/\ reply'.handler = "my_votes"
                          /\ reply'.cookie = CookieOf(s) /\ reply'.header = h
                          /\ my_votes(CookieOf(s), h)) =>
                             /\ ~HasSession(sessions', s.id)
                             /\ h = NoHeader => reply'.status = 401
                             /\ reply'.status = 200 => reply'.set_cookie._id # s.id
                  /\ \A r \in Reqs :
                         (reqs[r].cookie = CookieOf(s) /\ CastAuth(r)) =>
                             /\ ~HasSession(sessions', s.id)
                             /\ reqs[r].header = NoHeader => reqs'[r].status = 401
                             /\ reqs'[r].status # 401 => reqs'[r].cookie._id # s.id
       /\ boots' # boots =>
              /\ sessions' \subseteq sessions
              /\ \A s \in sessions \ sessions' : s.expires_at < now
              /\ \A s \in sessions :
                     authenticate_request_helper(CookieOf(s), NoHeader).user_id'
                         = authenticate_request_helper(CookieOf(s),
                                                       NoHeader).user_id]_vars

\* On SQLite, one second past the expiry of the initial sessions and after
\* a restart whose cleanup left them in place, the cookie of session 1 was
\* answered 401 and its row is gone; the row of session 2 is still there.
C14_Witness ==
    /\ ~use_postgresql
    /\ boots = 1
    /\ now = SESSION_LIFETIME + 1
    /\ reply.handler = "my_votes" /\ reply.cookie = [user_id |-> 1, _id |-> 1]
    /\ reply.header = NoHeader /\ reply.status = 401
    /\ ~HasSession(sessions, 1)
    /\ \E s \in sessions : s.id = 2 /\ now > s.expires_at

\* The access code a request carries: X-Access-Code, else the Bearer token.
CodeSent(h) ==
    IF Strip(h.x_access_code) # <<>> THEN h.x_access_code ELSE h.bearer

\* The cookie gives no session: there is none, or its row is missing or past
\* its expiry.
NoUsableCookie(c) ==
    \/ c = NoCookie
    \/ ~HasSession(sessions, c._id)
    \/ \E s \in sessions : s.id = c._id /\ now > s.expires_at

\* After the step a new row, with an id never given before, belongs to user
\* u, expires 31 days from now, and is the session of the cookie `cookie`;
\* no other row was added.
NewSessionFor(u, cookie) ==
    \E s \in sessions' :
        /\ s.id \notin 1..session_seq
        /\ s.user_id = u.id
        /\ s.last_active = now
        /\ s.expires_at = now + 31 * DAY
        /\ cookie = [user_id |-> u.id, _id |-> s.id]
        /\ sessions' \ {s} \subseteq sessions

NoValidHeader(h) ==
    \/ Strip(CodeSent(h)) = <<>>
    \/ ~\E u \in users : u.access_code = Upper(Strip(CodeSent(h)))

\* The cookie names no session that exists, is before its expiry and was
\* active in the last 30 minutes.
NoValidCookie(c) ==
    \/ NoUsableCookie(c)
    \/ \E s \in sessions : s.id = c._id /\ Idle(s)

\* The only change to the session table is that the row the cookie names, if
\* it was there, may have been deleted.
OnlyCookieRowDeleted(c) ==
    /\ sessions' \subseteq sessions
    /\ \A s \in sessions \ sessions' : s.id = c._id

\* C16: with the gate open, a request to /vote or /my-votes that carries
\* neither a valid cookie session nor a valid access-code header is answered
\* 401 and leaves the ledger as it was; of the session table, at most the
\* dead row the cookie names goes.  (The claim says the session table is
\* left unchanged; the deletion of the dead row, which the resolver is meant
\* to do, is allowed here.)
C16_NoCredentialIs401 ==
    [][\A c \in SessionCookies, h \in SessionHeaders :
          (voting_config = "true" /\ NoValidCookie(c) /\ NoValidHeader(h)) =>
              /\ my_votes(c, h) =>
                     /\ reply'.status = 401
                     /\ votes' = votes
                     /\ OnlyCookieRowDeleted(c)
              /\ \A r \in Reqs :
                     (/\ CastAuth(r) /\ reqs[r].cookie = c
                      /\ reqs[r].header = h) =>
                         /\ reqs'[r].status = 401 /\ reqs'[r].pc = "done"
                         /\ votes' = votes
                         /\ OnlyCookieRowDeleted(c)]_vars

----------------------------------------------------------------------------
(* C18, over SpecCheck.                                                    *)

\* C18: /check-session never answers with an error.  Whatever the request
\* and whichever of the session lookup, the access-code lookup and the user
\* lookup raises, the response is 200; it says logged_in = true exactly when
\* the resolver returned a user id, the user lookup did not raise and found
\* a row with that id, and logged_in = false otherwise, a resolved id whose
\* user row is gone included.
C18_CheckSessionNeverErrors ==
    [][(reply' # reply /\ reply'.handler = "check_session") =>
           /\ reply'.status \in {0, 200}
           /\ reply'.status = 0 => (reply'.user_id # 0 /\ ~reply'.raised)
           /\ reply'.status = 200 =>
                  (reply'.logged_in <=>
                       /\ reply.handler = "check_session" /\ reply.status = 0
                       /\ ~reply'.raised
                       /\ \E u \in users : u.id = reply'.user_id)]_vars

\* User 1 was resolved and then the user lookup raised: the answer is 200
\* with logged_in false, although the user exists.
C18_Witness ==
    /\ reply.handler = "check_session"
    /\ reply.raised /\ reply.user_id = 1
    /\ reply.status = 200 /\ ~reply.logged_in
    /\ \E u \in users : u.id = 1

----------------------------------------------------------------------------
(* C19 and C20, over SpecTally.                                            *)

\* C19: a tally read whose query fails is answered 200 with the requested
\* category_id and an empty results list, and changes nothing in the
\* store; a read whose query succeeds is answered 200 as well.
C19_FailedTallyReadIsEmptySuccess ==
    [][\A c \in TallyIds, raises \in BOOLEAN :
           get_category_results(c, raises) =>
               /\ reply'.status = 200
               /\ reply'.category_id = c
               /\ raises => reply'.results = {}
               /\ UNCHANGED <<users, votes, vote_seq, sessions, session_seq,
                              voting_config, VOTING_ACTIVE>>]_vars

\* A failed read of a category that has votes: 200 and an empty list.
C19_Witness ==
    /\ reply.handler = "category_results"
    /\ reply.raised /\ reply.status = 200 /\ reply.results = {}
    /\ category_results(reply.category_id) # {}

\* A step of admin_reset_category_votes answered 200 for category C: the
\* answer is the handler's, and no cast moved (every step of a cast moves
\* its request).
ResetAnswered(C) ==
    /\ reqs' = reqs
    /\ reply'.handler = "admin_reset_category_votes"
    /\ reply'.status = 200
    /\ reply'.category_id = C

\* C20: an admin reset that is answered 200 for category C leaves no vote
\* row of C, so tally(C) is empty, and leaves the vote rows of every other
\* category, the users and the sessions as they were.
C20_CategoryResetFrame ==
    [][\A C \in TallyIds :
           ResetAnswered(C) =>
               /\ \A v \in votes' : v.category_id # C
               /\ category_results(C)' = {}
               /\ {v \in votes' : v.category_id # C}
                      = {v \in votes : v.category_id # C}
               /\ UNCHANGED <<users, sessions>>]_vars

\* Category 2 was reset after both categories had votes: no row of 2 is
\* left, a row of category 1 still is, and a row has been deleted.
C20_Witness ==
    /\ reply.handler = "admin_reset_category_votes"
    /\ reply.status = 200 /\ reply.category_id = 2
    /\ \E v \in votes : v.category_id = 1
    /\ \A v \in votes : v.category_id # 2
    /\ vote_seq > Cardinality(votes)

----------------------------------------------------------------------------
(* C21, C22 and C27, over SpecPurge.                                       *)

\* C21: an admin reset-votes is all or nothing.  Answered 200, it leaves the
\* ledger empty and reports as deleted the number of rows there were just
\* before; answered 500, it leaves every row; so the ledger a tally or a
\* cast finds after it is the whole one or the empty one, never a part.
C21_ResetVotesAllOrNothing ==
    [][\A raises \in BOOLEAN :
           reset_votes(AdminHeader, raises) =>
               /\ reply'.status \in {200, 500}
               /\ reply'.status = 200 =>
                      /\ votes' = {}
                      /\ reply'.deleted = Cardinality(votes)
                      /\ \A c \in TallyIds : category_results(c)' = {}
               /\ reply'.status = 500 => votes' = votes
               /\ votes' \in {votes, {}}]_vars

\* A reset answered 200 that reported the two rows it deleted.
C21_Witness ==
    /\ reply.handler = "reset_votes"
    /\ reply.status = 200 /\ reply.deleted = 2
    /\ votes = {}

\* C22: an admin delete of user U answered 200 leaves no vote, session or
\* saved-state row of U and no user row of U; neither U's access code nor
\* the cookie of a session U had authenticates a request any more; the rows
\* of the other users are as they were.  Answered 500 it leaves all four
\* tables as they were.
C22_DeleteUserCascadesAtomically ==
    [][\A U \in UserIds, raises \in BOOLEAN :
           admin_delete_user(AdminHeader, U, raises) =>
               /\ reply'.status \in {200, 500}
               /\ reply'.status = 200 =>
                      /\ \A v \in votes' : v.user_id # U
                      /\ \A s \in sessions' : s.user_id # U
                      /\ U \notin user_states'
                      /\ \A u \in users' : u.id # U
                      /\ \A u \in users :
                             u.id = U =>
                                 /\ ~HasUserWithCode(u.access_code)'
                                 /\ authenticate_request_helper(NoCookie,
                                        [NoHeader EXCEPT
                                            !.x_access_code = u.access_code]
                                        ).user_id' = 0
                      /\ \A s \in sessions :
                             s.user_id = U =>
                                 authenticate_request_helper(
                                     CookieOf(s), NoHeader).user_id' = 0
                      /\ {v \in votes' : v.user_id # U}
                             = {v \in votes : v.user_id # U}
                      /\ {s \in sessions' : s.user_id # U}
                             = {s \in sessions : s.user_id # U}
                      /\ user_states' \ {U} = user_states \ {U}
                      /\ {u \in users' : u.id # U} = {u \in users : u.id # U}
               /\ reply'.status = 500 =>
                      UNCHANGED <<retry, votes, sessions, user_states, users>>]_vars

\* User 1, who had a vote, a session and a saved state, was deleted; user 2
\* still has a vote, a session and a saved state.
C22_Witness ==
    /\ reply.handler = "admin_delete_user"
    /\ reply.status = 200 /\ reply.user_id = 1
    /\ vote_seq = 2 /\ Cardinality(votes) = 1
    /\ \A u \in users : u.id = 2
    /\ \E v \in votes : v.user_id = 2
    /\ \E s \in sessions : s.user_id = 2
    /\ user_states = {2}

\* C27: a vote row is never updated in place.  A row that a step keeps has
\* the user_id, category_id and nominee_id it had; no step both adds and
\* removes rows; a row is added only by a cast that answers 201, one row
\* with the user, category and nominee of that cast; and rows are removed
\* only by an admin deletion that an admin sent and that was answered 200.
C27_VoteRowsImmutable ==
    [][/\ \A v \in votes, w \in votes' : v.id = w.id => v = w
       /\ ~(votes' \ votes # {} /\ votes \ votes' # {})
       /\ votes' \ votes # {} =>
              /\ reply' = reply
              /\ \E r \in Reqs :
                     /\ reqs[r].pc \in {"txn", "commit"}
                     /\ reqs'[r].pc = "done" /\ reqs'[r].status = 201
                     /\ votes' \ votes =
                            {[id |-> vote_seq + 1,
                              user_id |-> reqs[r].user_id,
                              category_id |-> reqs[r].category_id,
                              nominee_id |-> reqs[r].nominee_id]}
       /\ votes \ votes' # {} =>
              /\ reqs' = reqs
              /\ reply'.handler \in
                     {"reset_votes", "admin_reset_user_votes",
                      "admin_reset_category_votes", "admin_delete_user",
                      "admin_remove_nominee"}
              /\ reply'.status = 200
              /\ require_admin(reply'.adm)]_vars

\* A row cast before is still in the ledger, unchanged, after another row
\* was removed by the removal of a nominee.
C27_Witness ==
    /\ reply.handler = "admin_remove_nominee" /\ reply.status = 200
    /\ \E r1, r2 \in Reqs :
           /\ reqs[r1].status = 201 /\ reqs[r2].status = 201
           /\ reqs[r1].category_id = 1 /\ reqs[r2].category_id = 2
           /\ ~\E v \in votes : v.user_id = reqs[r1].user_id
           /\ \E v \in votes :
                  /\ v.user_id = reqs[r2].user_id
                  /\ v.category_id = 2
                  /\ v.nominee_id = reqs[r2].nominee_id

----------------------------------------------------------------------------
(* C23 and C24, over SpecAdmin.                                            *)

\* The callers with neither the cookie flag nor the admin secret.
Unauthenticated ==
    {adm \in AdminCreds :
        ~adm.admin_authenticated /\ adm.x_admin_code # ADMIN_CODE}

\* A step of one of the state-changing admin handlers for caller adm.
AdminOperation(adm) ==
    \/ \E value \in {"true", "false"} : set_voting_status(adm, value, FALSE)
    \/ reset_votes(adm, FALSE)
    \/ admin_reset_user_votes(adm, 1)
    \/ admin_reset_category_votes(adm, AdminFile, <<"a">>)
    \/ admin_delete_user(adm, 1, FALSE)

\* C23: a request to set the gate, to reset votes (all, of a user, of a
\* category) or to delete a user, sent with neither the admin cookie flag
\* nor the admin secret in X-Admin-Code, is answered 403 and changes neither
\* the gate nor the ledger nor users, sessions or saved states; and the
\* stored gate value changes only in a set-voting-status step of an admin
\* answered 200.
C23_AdminOperationsNeedAdmin ==
    [][/\ \A adm \in Unauthenticated :
              AdminOperation(adm) =>
                  /\ reply'.status = 403
                  /\ UNCHANGED <<retry, voting_config, VOTING_ACTIVE, votes, users,
                                 sessions, user_states>>
       /\ get_voting_active_from_db(FALSE)' # get_voting_active_from_db(FALSE) =>
              /\ reply'.handler = "set_voting_status"
              /\ reply'.status = 200
              /\ require_admin(reply'.adm)
              /\ \E value \in {"true", "false"} :
                     set_voting_status(reply'.adm, value, FALSE)]_vars

\* A reset of all votes without any credential was answered 403 while the
\* ledger held a vote and the gate was closed.
C23_Witness ==
    /\ reply.handler = "reset_votes"
    /\ reply.adm = NoAdmin /\ reply.status = 403
    /\ votes # {}
    /\ voting_config = "false"

\* The callers authenticated as analyst and nothing more: the analyst secret
\* in the header, or the cookie flags an analyst login leaves.
AnalystOnly ==
    {adm \in AdminCreds :
        /\ adm.x_admin_code # ADMIN_CODE
        /\ \/ adm.x_admin_code = ANALYST_CODE /\ ~adm.admin_authenticated
           \/ adm.admin_authenticated /\ adm.admin_role = "analyst"}

\* C24 as stated: some state-changing admin operation (set the gate, reset
\* votes, delete a user) accepts a caller who is authenticated only as
\* analyst, that is, answers such a caller with something else than 403.
C24_AnalystAcceptedByAnOperation ==
    \E adm \in AnalystOnly :
        ENABLED (AdminOperation(adm) /\ reply'.status # 403)

\* C24, amended: every state-changing admin operation refuses a caller who
\* is authenticated only as analyst: the answer is 403 and the gate, the
\* ledger, the users, the sessions and the saved states are unchanged.
C24_AnalystRefusedByEveryOperation ==
    [][\A adm \in AnalystOnly :
           AdminOperation(adm) =>
               /\ reply'.status = 403
               /\ UNCHANGED <<retry, voting_config, VOTING_ACTIVE, votes, users,
                              sessions, user_states>>]_vars

\* A caller with the cookie flags of an analyst login asked for user 1, who
\* has a vote, to be deleted, and was answered 403.
C24_Witness ==
    /\ reply.handler = "admin_delete_user"
    /\ reply.adm.admin_authenticated /\ reply.adm.admin_role = "analyst"
    /\ reply.status = 403
    /\ \E u \in users : u.id = 1
    /\ \E v \in votes : v.user_id = 1

----------------------------------------------------------------------------
(* C25 and C26, over SpecSignup.                                           *)

\* C25: access codes never collide.  Every code the generator returns is
\* four uppercase letters followed by two digits and is the access_code of
\* no user row at the time of its check; and in every state, signups that
\* drew the same code at the same time included, no two user rows share an
\* access_code.
C25_AccessCodesNeverCollide ==
    [][LET Pattern(code) == /\ Len(code) = 6
                            /\ \A i \in 1..4 :
                                   \E k \in 1..26 : code[i] = UpperLetters[k]
                            /\ \A i \in 5..6 : IsDigitChar(code[i])
       IN /\ \A r \in Reqs :
                 (reqs[r].pc # "insert" /\ reqs'[r].pc = "insert") =>
                     /\ Pattern(reqs'[r].signup.access_code)
                     /\ \A u \in users :
                            u.access_code # reqs'[r].signup.access_code
          /\ \A u1, u2 \in users' :
                 u1.access_code = u2.access_code => u1 = u2]_vars

\* Two signups drew the same code at the same time: one created its user,
\* the other was refused by the constraint.
C25_Witness ==
    \E r1, r2 \in Reqs :
        /\ reqs[r1].pc = "done" /\ reqs[r1].status = 200
        /\ reqs[r2].pc = "done" /\ reqs[r2].status = 500
        /\ reqs[r1].signup.access_code = reqs[r2].signup.access_code
        /\ \E u \in users : u.access_code = reqs[r1].signup.access_code

\* C26: a user row exists only for a person of the event-registration list
\* whose birthdate is on the birthdate list.
C26_SignupPassesBothChecks ==
    \A u \in users :
        /\ u.birthdate \in ALLOWED_BIRTHDATES
        /\ \E record \in EventRegistration :
               /\ normalize_phone(record.phone) = u.phone
               /\ normalize_name(u.fullname) =
                      normalize_name(record.first_name \o <<" ">> \o
                                     record.last_name)
----------------------------------------------------------------------------
(* C28 over SpecSession, C29 over SpecDevices.                              *)

\* C28: resolving a request a second time, with the cookie and the headers
\* as they were sent the first time, returns the user id the first
\* resolution returned and leaves the session rows the first resolution
\* left, up to their last_active.
C28_ResolverIdempotent ==
    [][\A c \in SessionCookies, h \in SessionHeaders :
          (/\ reply'.handler = "my_votes"
           /\ reply'.cookie = c /\ reply'.header = h
           /\ now' = now /\ reqs' = reqs /\ boots' = boots) =>
              LET again == authenticate_request_helper(c, h)'
                  Rows(rows) == {[id |-> s.id, user_id |-> s.user_id,
                                  expires_at |-> s.expires_at] : s \in rows}
              IN /\ again.user_id = reply'.user_id
                 /\ Rows(again.sessions) = Rows(sessions')]_vars
\* The other sessions of the owner of session_id that are neither expired
\* nor idle.
LiveSiblings(session_id) ==
    {s \in sessions :
        /\ s.id # session_id
        /\ \E d \in sessions : d.id = session_id /\ d.user_id = s.user_id
        /\ now <= s.expires_at /\ ~Idle(s)}

\* C29: a user may hold several session rows, each owned by one user.  A
\* login or a header-authenticated request adds a row for its user and
\* keeps every row there is; a logout deletes the row its cookie names and
\* no other; a request refused for inactivity deletes the idle row and no
\* other; and after either deletion every other live session of the same
\* user still authenticates as that user.
C29_SessionsAreIndependent ==
    [][/\ \A s1, s2 \in sessions' : s1.id = s2.id => s1 = s2
       /\ \A form \in LoginForms :
              (login(form) /\ reply'.status = 200) =>
                  /\ sessions \subseteq sessions'
                  /\ sessions' \ sessions =
                         {[id |-> reply'.set_cookie._id,
                           user_id |-> reply'.user_id, last_active |-> now,
                           expires_at |-> now + SESSION_LIFETIME]}
                  /\ ~HasSession(sessions, reply'.set_cookie._id)
       /\ \A c \in DeviceCookies :
              /\ logout(c) =>
                     /\ sessions' = {s \in sessions : s.id # c._id}
                     /\ \A s \in LiveSiblings(c._id) :
                            authenticate_request_helper(CookieOf(s),
                                NoHeader)'.user_id = s.user_id
              /\ \A h \in DeviceHeaders :
                     (/\ my_votes(c, h)
                      /\ \E d \in sessions :
                             d.id = c._id /\ now <= d.expires_at /\ Idle(d)) =>
                         /\ {s \in sessions' : s.id # c._id} =
                                {s \in sessions : s.id # c._id}
                         /\ reply'.status = 401 =>
                                ~HasSession(sessions', c._id)
                         /\ \A s \in LiveSiblings(c._id) :
                                authenticate_request_helper(CookieOf(s),
                                    NoHeader)'.user_id = s.user_id]_vars

\* User 1 holds the session of a login and the session of a header request
\* after the first session, idle, was refused and deleted.
C29_Witness ==
    /\ reply.handler = "my_votes" /\ reply.status = 401
    /\ reply.cookie = [user_id |-> 1, _id |-> 1]
    /\ ~HasSession(sessions, 1)
    /\ \E s \in sessions : s.id = 3 /\ s.user_id = 1 /\ ~Idle(s)
    /\ \E s \in sessions : s.id = 4 /\ s.user_id = 1 /\ ~Idle(s)
----------------------------------------------------------------------------
(* C30, over SpecRetry.                                                    *)

\* C30: a call of retry_db_operation ends, and the operation is invoked at
\* most max_retries times.  When it returns, it returns the result of the
\* first invocation that succeeded, every earlier one having failed with a
\* transient error (with max_retries = 0 the operation is not invoked and
\* None is returned).  When it raises, it raises the error of the last
\* invocation, which either is not transient, or is the error of invocation
\* number max_retries.  No invocation follows an error that is not
\* transient.  Before retry number k it has slept delay * 2^(k-1).
C30_RetryIsBounded ==
    /\ [](LET n == retry.invocations
              Failed(k) == ~retry.outcomes[k].ok
              Transient(k) == Failed(k) /\ is_retryable(retry.outcomes[k].error)
          IN /\ n <= retry.max_retries
             /\ retry.pc = "call" => retry.attempt < retry.max_retries
             /\ \A k \in 1..(n - 1) : Transient(k)
             /\ retry.pc \in {"call", "returned", "raised"} =>
                    /\ Len(retry.slept) = IF n = 0 THEN 0
                                          ELSE IF retry.pc = "call" THEN n
                                          ELSE n - 1
                    /\ \A k \in 1..Len(retry.slept) :
                           retry.slept[k] = retry.delay * 2 ^ (k - 1)
             /\ retry.pc = "returned" =>
                    IF retry.max_retries = 0
                    THEN n = 0 /\ retry.result = None
                    ELSE /\ n >= 1 /\ retry.outcomes[n].ok
                         /\ retry.result = Some(retry.outcomes[n].value)
             /\ retry.pc = "raised" =>
                    /\ n >= 1 /\ Failed(n)
                    /\ retry.result = Some(retry.outcomes[n].error)
                    /\ ~Transient(n) \/ n = retry.max_retries)
    /\ (retry.pc # "idle") ~> (retry.pc \in {"returned", "raised"})

\* Three invocations failed with transient errors: after waits of one and
\* two delays the third error was raised.
C30_Witness ==
    /\ retry.pc = "raised" /\ retry.max_retries = 3 /\ retry.invocations = 3
    /\ retry.slept = <<retry.delay, 2 * retry.delay>>
    /\ is_retryable(retry.result[1])
----------------------------------------------------------------------------
(* C31, over SpecFailOpen.                                                 *)

\* C31: the gate read fails open.  A cast whose gate read raises is not
\* turned away and the store is left as it was; a cast that finds no
\* voting_active row is not turned away and leaves a row with value 'true';
\* and a cast is answered 403 at the gate exactly when its read succeeds on
\* a stored value other than 'true'.
C31_GateFailsOpen ==
    [][\A r \in Reqs :
          (reqs[r].pc = "idle" /\ reqs'[r].pc # "idle") =>
              /\ reqs'[r].gate_raised =>
                     /\ reqs'[r].pc = "auth"
                     /\ voting_config' = voting_config
              /\ (~reqs'[r].gate_raised /\ voting_config = NoRow) =>
                     /\ reqs'[r].pc = "auth"
                     /\ voting_config' = "true"
              /\ reqs'[r].status = 403 <=>
                     /\ ~reqs'[r].gate_raised
                     /\ voting_config \notin {NoRow, "true"}]_vars

\* On a store that had no row, one cast, whose read did not raise, went
\* past the gate, and the row is there with value 'true'.
C31_Witness ==
    /\ use_postgresql /\ boots = 0 /\ reply = NoReply
    /\ voting_config = "true"
    /\ reqs[1].pc = "auth" /\ ~reqs[1].gate_raised
    /\ reqs[2].pc = "idle"
----------------------------------------------------------------------------
(* C32, over SpecPurge.                                                    *)

\* C32: every vote row and every session row names the id of a user row.
C32_NoOrphanRows ==
    /\ \A v \in votes : \E u \in users : u.id = v.user_id
    /\ \A s \in sessions : \E u \in users : u.id = s.user_id
----------------------------------------------------------------------------
(* C33, over SpecNominee.                                                  *)

\* C33: with nominees removed, every stored nominee_id of a category lies
\* within the current list of the category, and the vote of a cast that was
\* answered 201 designates in the current list the name it designated in
\* the list the cast read.
C33_VotesKeepTheirNominee ==
    /\ \A v \in votes :
           /\ HasCategory(categories_js, v.category_id)
           /\ v.nominee_id \in
                  1..Len(SelectCategory(categories_js, v.category_id).nominees)
    /\ \A r \in Reqs, v \in votes :
           (/\ reqs[r].status = 201
            /\ v.user_id = reqs[r].user_id
            /\ v.category_id = reqs[r].category_id) =>
               SelectCategory(categories_js, v.category_id).nominees[v.nominee_id]
                   = SelectCategory(reqs[r].categories,
                                    v.category_id).nominees[reqs[r].nominee_id]
----------------------------------------------------------------------------
(* C34, over SpecSignup.                                                   *)

\* C34: at most one user row exists per normalized phone number.
C34_OneUserPerPhone ==
    \A u1, u2 \in users : u1.phone = u2.phone => u1 = u2
----------------------------------------------------------------------------
(* C35, over SpecCookie.                                                   *)

\* C35: a request answered for user u carries, or is given, the cookie of a
\* session row that exists, is owned by u and is not expired; when the
\* request was authenticated by its cookie, that row is the one the cookie
\* sent names.  Every cookie that signup, login or a header request sets
\* with a user_id carries the id of a session row of that user.
C35_CookieBackedBySession ==
    [][/\ (reply' # reply /\ reply'.handler = "my_votes"
           /\ reply'.status = 200) =>
              /\ \E s \in sessions' :
                     /\ s.id = reply'.set_cookie._id
                     /\ s.user_id = reply'.user_id
                     /\ now <= s.expires_at
              /\ reply'.header = NoHeader =>
                     /\ reply'.cookie.user_id = reply'.user_id
                     /\ \E s \in sessions :
                            /\ s.id = reply'.cookie._id
                            /\ s.user_id = reply'.user_id
                            /\ now <= s.expires_at
       /\ (reply' # reply /\ reply'.set_cookie.user_id # 0) =>
              /\ reply'.set_cookie._id # 0
              /\ reply'.set_cookie # reply'.cookie =>
                     \E s \in sessions' \ sessions :
                         CookieOf(s) = reply'.set_cookie
       /\ \A r \in Reqs :
              (reqs'[r] # reqs[r] /\ reqs'[r].cookie.user_id # 0) =>
                  /\ reqs'[r].cookie._id # 0
                  /\ \E s \in sessions' \ sessions :
                         CookieOf(s) = reqs'[r].cookie]_vars

\* A user who signed up, whose signup cookie was then used and answered,
\* and who also holds the session of a login.
C35_Witness ==
    /\ reply.handler = "my_votes" /\ reply.status = 200
    /\ reply.header = NoHeader
    /\ \E r \in Reqs : reqs[r].status = 200 /\ reqs[r].cookie = reply.cookie
    /\ \E s \in sessions : s.user_id = reply.user_id /\ s.id # reply.cookie._id
----------------------------------------------------------------------------
(* C36 and C37, over SpecDevices.                                          *)

\* C36: a request with the cookie of a session that exists, is not expired
\* and is not idle, and with the access code of another user in a header,
\* is answered for the owner of the session; the cookie stays, and no
\* session row is added or removed.
C36_CookieBeforeHeader ==
    [][\A s \in sessions, h \in DeviceHeaders :
          (/\ now <= s.expires_at /\ ~Idle(s)
           /\ HasUserWithCode(HeaderCode(h))
           /\ get_user_by_access_code_helper(HeaderCode(h)).id # s.user_id
           /\ my_votes(CookieOf(s), h)) =>
              /\ reply'.status = 200
              /\ reply'.user_id = s.user_id
              /\ reply'.set_cookie = CookieOf(s)
              /\ session_seq' = session_seq
              /\ {x.id : x \in sessions'} = {x.id : x \in sessions}
              /\ \A x \in sessions' : x.id = s.id \/ x \in sessions]_vars

\* The cookie of session 2, of user 2, was sent with the code of user 1 and
\* answered for user 2; no session has been added to the two of the start.
C36_Witness ==
    /\ reply.handler = "my_votes" /\ reply.status = 200
    /\ reply.cookie = [user_id |-> 2, _id |-> 2]
    /\ reply.header = [x_access_code |-> <<>>, bearer |-> <<"a", "1", " ">>]
    /\ reply.user_id = 2
    /\ session_seq = 2

\* C37: a request whose cookie names a session idle for more than 30
\* minutes is unauthenticated even with a valid access code in a header,
\* and no session is created for it; a request whose cookie names a row
\* that is missing or past its expires_at, sent with a valid access code,
\* is authenticated by the code in the same request.
C37_IdleCookieBlocksHeader ==
    [][\A c \in DeviceCookies, h \in DeviceHeaders :
          (/\ c.user_id # 0 /\ c._id # 0
           /\ HasUserWithCode(HeaderCode(h))
           /\ my_votes(c, h)) =>
              IF \E s \in sessions : s.id = c._id /\ now <= s.expires_at
              THEN \A s \in sessions :
                       (s.id = c._id /\ Idle(s)) =>
                           /\ reply'.status = 401
                           /\ session_seq' = session_seq
              ELSE /\ reply'.status = 200
                   /\ reply'.user_id =
                          get_user_by_access_code_helper(HeaderCode(h)).id
                   /\ session_seq' = session_seq + 1]_vars

----------------------------------------------------------------------------
(* C38, over SpecStatus. *)

\* C38: set-voting-status by an admin persists the truthiness of the
\* submitted voting_active field (false and 0 close the gate; true, a
\* non-empty string, and an absent body or field open it), sets the cache
\* to the same value and responds 200 with that value; when the write
\* fails the response is 500 and neither the row nor the cache changes.
C38_SetStatusPersistsTruthiness ==
    [][\A adm \in AdminCreds, value \in GateValues, raises \in BOOLEAN :
          (require_admin(adm) /\ set_voting_status(adm, value, raises)) =>
              LET open == value \notin {"false", "0"} IN
              IF raises
              THEN /\ reply'.status = 500
                   /\ reply'.voting_active = ""
                   /\ voting_config' = voting_config
                   /\ VOTING_ACTIVE' = VOTING_ACTIVE
              ELSE /\ reply'.status = 200
                   /\ reply'.voting_active = (IF open THEN "true" ELSE "false")
                   /\ voting_config' = reply'.voting_active
                   /\ VOTING_ACTIVE' = open]_vars

\* A cast was refused by the closed gate, and the last request, a
\* set-voting-status answered 200 with voting_active true, has opened it.
C38_Witness ==
    /\ reply.handler = "set_voting_status" /\ reply.status = 200
    /\ reply.voting_active = "true"
    /\ voting_config = "true" /\ VOTING_ACTIVE
    /\ reqs[1].pc = "done" /\ reqs[1].status = 403

----------------------------------------------------------------------------
(* C39, over SpecRevote. *)

\* C39: a reset answered 200 leaves no row in its scope (reset all: none;
\* reset of a user: none of that user; reset of a category: none of that
\* category), and a cast of user U for category C that reaches its write
\* while the ledger holds no row of (U, C), after an earlier cast of U for C
\* was answered 201, is answered 201, adds the row of (U, C) and raises the
\* count of its nominee in the tally of C by one.
C39_ResetLetsTheUserVoteAgain ==
    [][/\ reset_votes(AdminHeader, FALSE) => votes' = {}
       /\ \A u \in UserIds :
              admin_reset_user_votes(AdminHeader, u) =>
                  ~\E v \in votes' : v.user_id = u
       /\ (/\ reply' # reply
           /\ reply'.handler = "admin_reset_category_votes"
           /\ reply'.status = 200) =>
              ~\E v \in votes' : v.category_id = reply'.category_id
       /\ \A r \in Reqs, q \in Reqs :
              LET req == reqs[r]
                  Count(rows) ==
                      Cardinality({v \in rows :
                                      /\ v.category_id = req.category_id
                                      /\ v.nominee_id = req.nominee_id})
              IN (/\ q # r
                  /\ req.pc \in {"txn", "commit"}
                  /\ reqs'[r].pc = "done"
                  /\ reqs[q].pc = "done" /\ reqs[q].status = 201
                  /\ reqs[q].user_id = req.user_id
                  /\ reqs[q].category_id = req.category_id
                  /\ ~\E v \in votes : /\ v.user_id = req.user_id
                                       /\ v.category_id = req.category_id) =>
                     /\ reqs'[r].status = 201
                     /\ \E v \in votes' \ votes :
                            /\ v.user_id = req.user_id
                            /\ v.category_id = req.category_id
                            /\ v.nominee_id = req.nominee_id
                     /\ Count(votes') = Count(votes) + 1
                     /\ [nominee_id |-> req.nominee_id,
                         votes |-> Count(votes')]
                            \in category_results(req.category_id)']_vars

\* Both requests were casts of the same user for the same category, both
\* were answered 201, a reset that deleted a row came between them, and the
\* ledger holds the row of the second.
C39_Witness ==
    /\ reqs[1].pc = "done" /\ reqs[1].status = 201
    /\ reqs[2].pc = "done" /\ reqs[2].status = 201
    /\ reqs[1].user_id = reqs[2].user_id
    /\ reqs[1].category_id = reqs[2].category_id
    /\ reply.handler \in {"reset_votes", "admin_reset_user_votes",
                          "admin_reset_category_votes"}
    /\ reply.status = 200 /\ reply.deleted = 1
    /\ Cardinality({v \in votes : /\ v.user_id = reqs[1].user_id
                                  /\ v.category_id = reqs[1].category_id}) = 1

----------------------------------------------------------------------------
(* C40, over SpecLogin. *)

\* C40: a login is answered 200, with a new session row for a user who has
\* both the submitted normalized full name and the submitted trimmed,
\* uppercased access code, exactly when there is such a user; otherwise it
\* is refused and no session row is added.
C40_LoginIffNameAndCode ==
    [][\A form \in LoginAttempts :
          login(form) =>
              LET name == normalize_name(Strip(form.firstname) \o <<" ">>
                                             \o Strip(form.lastname))
                  code == Upper(Strip(form.access_code))
                  match == {u \in users :
                               /\ normalize_name(u.fullname) = name
                               /\ u.access_code = code}
              IN IF match # {}
                 THEN /\ reply'.status = 200
                      /\ reply'.user_id \in {u.id : u \in match}
                      /\ \E s \in sessions' \ sessions :
                             s.user_id = reply'.user_id
                 ELSE /\ reply'.status # 200
                      /\ sessions' = sessions]_vars
====
